---- MODULE Spec2Model ----
(***************************************************************************)
(* The *.scan file codec of scan-controller: exportScan.export_scan,       *)
(* exportScanSD.export_scan and importScan.import_scan.                    *)
(*                                                                         *)
(* A file is the sequence of little-endian doubles it holds (vals) plus    *)
(* the number of bytes that follow the last whole double (frac).  Doubles  *)
(* are modelled by integers, samples by pairs <<re, im>> (im = 0 when the  *)
(* array's dtype is real, cplx = FALSE).                                   *)
(* An n-dimensional numpy array is [shape, flat, cplx]: flat lists the     *)
(* elements in C (row-major) index order, indices are 0-based.             *)
(*                                                                         *)
(* The second half models the motion side: MotionController over the       *)
(* GcodeSimulator driver, Scanner.run_scan, and the ConnectThread and      *)
(* ScanThread of test_scanner_gui.py (variables mc, driver, probe, caller).*)
(***************************************************************************)
EXTENDS Integers, Sequences, FiniteSets, TLC

VARIABLES file, input, exp, tamper, out, pc, arr, orig, passes,
          mc, driver, probe, caller

vars == <<file, input, exp, tamper, out, pc, arr, orig, passes,
          mc, driver, probe, caller>>

(* ------------------------------ bounds --------------------------------- *)
MaxDims == 3
MaxDimSize == 3
MaxPoints == 6
MaxFreq == 2
MaxChannels == 2
MaxTruncate == 2
MaxExtraDoubles == 1
MaxExtraFrac == 1
MaxRequested == 4
MaxFlipSize == 3
MaxCut == 24

(* ------------------------- program constants --------------------------- *)
scan_file_code == 63474328
scan_file_version == 1

(* --------------------------- numpy helpers ----------------------------- *)
RECURSIVE Prod(_)
Prod(s) == IF Len(s) = 0 THEN 1 ELSE Head(s) * Prod(Tail(s))

RECURSIVE Sum(_)
Sum(s) == IF Len(s) = 0 THEN 0 ELSE Head(s) + Sum(Tail(s))

Take(s, n) == SubSeq(s, 1, IF n < Len(s) THEN n ELSE Len(s))
Drop(s, n) == SubSeq(s, n + 1, Len(s))

Min(a, b) == IF a < b THEN a ELSE b
Max(a, b) == IF a > b THEN a ELSE b

Zeros(n) == [k \in 1..n |-> 0]
Arange(n) == [k \in 1..n |-> k - 1]

\* unravel / ravel of a 0-based flat index k, C order (last axis fastest)
CUnravel(shape, k) ==
    [i \in 1..Len(shape) |-> (k \div Prod(Drop(shape, i))) % shape[i]]
CIndex(shape, idx) ==
    Sum([i \in 1..Len(shape) |-> idx[i] * Prod(Drop(shape, i))])
\* the same in Fortran order (first axis fastest)
FUnravel(shape, k) ==
    [i \in 1..Len(shape) |-> (k \div Prod(Take(shape, i - 1))) % shape[i]]
FIndex(shape, idx) ==
    Sum([i \in 1..Len(shape) |-> idx[i] * Prod(Take(shape, i - 1))])

Elem(a, idx) == a.flat[CIndex(a.shape, idx) + 1]

\* the array of the given shape with the given elements in C order
MkArray(shape, cplx, flat) ==
    [shape |-> shape, cplx |-> cplx, flat |-> flat]

\* a.ravel(order='F')
RavelF(a) ==
    [k \in 1..Prod(a.shape) |-> Elem(a, FUnravel(a.shape, k - 1))]

\* a.reshape(newshape) (order='C'): defined when the sizes agree
CanReshape(a, newshape) == Prod(a.shape) = Prod(newshape)
ReshapeC(a, newshape) == [a EXCEPT !.shape = newshape]

\* a.reshape(newshape, order='F')
ReshapeF(a, newshape) ==
    LET fl == RavelF(a)
    IN  MkArray(newshape, a.cplx,
        [k \in 1..Prod(newshape) |->
            LET idx == CUnravel(newshape, k - 1)
            IN  fl[FIndex(newshape, idx) + 1]])

\* np.transpose(a, axes), axes 0-based: out[idx] = a[src], src[axes[i]] = idx[i]
CanTranspose(a, axes) == Len(axes) = Len(a.shape)
Transpose(a, axes) ==
    LET n == Len(axes)
        newshape == [i \in 1..n |-> a.shape[axes[i] + 1]]
        pos(j) == CHOOSE i \in 1..n : axes[i] + 1 = j
    IN  MkArray(newshape, a.cplx,
        [k \in 1..Prod(newshape) |->
            LET idx == CUnravel(newshape, k - 1)
            IN  Elem(a, [j \in 1..n |-> idx[pos(j)]])])

\* MUTANT of FlipOddStripes: the stripes 0::2 are reversed instead of 1::2
FlipEvenStripes(a5) ==
    MkArray(a5.shape, a5.cplx,
        [k \in 1..Prod(a5.shape) |->
            LET idx == CUnravel(a5.shape, k - 1)
            IN  IF idx[5] % 2 = 0
                THEN Elem(a5, [idx EXCEPT ![4] = a5.shape[4] - 1 - idx[4]])
                ELSE Elem(a5, idx)])

\* a5[:, :, :, :, 1::2] = np.flip(a5[:, :, :, :, 1::2], axis=3) on a 5-D array
FlipOddStripes(a5) ==
    MkArray(a5.shape, a5.cplx,
        [k \in 1..Prod(a5.shape) |->
            LET idx == CUnravel(a5.shape, k - 1)
            IN  IF idx[5] % 2 = 1
                         THEN Elem(a5, [idx EXCEPT ![4] = a5.shape[4] - 1 - idx[4]])
                         ELSE Elem(a5, idx)])


(* ------------------------------ the file ------------------------------- *)
NoFile == [exists |-> FALSE, vals |-> <<>>, frac |-> 0]
FileOf(vals) == [exists |-> TRUE, vals |-> vals, frac |-> 0]

\* the doubles of a list of field groups, in writing order
RECURSIVE Concat(_)
Concat(fields) ==
    IF Len(fields) = 0 THEN <<>> ELSE Head(fields).vals \o Concat(Tail(fields))

Field(name, vals) == [name |-> name, vals |-> vals]
Bool2Float(b) == IF b THEN 1 ELSE 0

(* ------------------------ exportScan.export_scan ----------------------- *)
\* struct.pack('<d', float(len(s))) then one double per character code
write_string_as_doubles(text_string) == <<Len(text_string)>> \o text_string

RECURSIVE Digits(_)
Digits(n) == IF n < 10 THEN <<48 + n>> ELSE Digits(n \div 10) \o <<48 + (n % 10)>>
\* f"Channel {i}"
DefaultChannelName(i) == <<67, 104, 97, 110, 110, 101, 108, 32>> \o Digits(i)

exp_num_dims(x) == Len(x.axis_coordinates)
exp_dim_size_np(x) == [i \in 1..Len(x.axis_coordinates) |-> Len(x.axis_coordinates[i])]
Ndim(a) == Len(a.shape)

\* lines 48-132: the argument checks, "" when the input passes
export_validate(x) ==
    LET nd == exp_num_dims(x)
        ds == exp_dim_size_np(x)
        sh == x.data.shape
    IN  IF ~x.types_ok THEN "TypeError"
        ELSE IF x.is_uniform THEN
            IF nd > 0 /\ ds # Take(sh, nd) THEN "ValueError: dimension sizes"
            ELSE IF ~(nd + 1 <= Ndim(x.data) /\ Ndim(x.data) <= nd + 2)
                 THEN "ValueError: ndim"
            ELSE IF Len(x.f_vector) # sh[nd + 1] THEN "ValueError: frequency"
            ELSE ""
        ELSE
            IF nd > 0 /\ Ndim(x.data) = 0 THEN "IndexError"
            ELSE IF nd > 0 /\ \E i \in 1..nd : ds[i] # sh[1]
                 THEN "ValueError: points"
            ELSE IF nd = 0 /\ Ndim(x.data) = 0 THEN "ValueError: scalar"
            ELSE IF ~(2 <= Ndim(x.data) /\ Ndim(x.data) <= 3) THEN "ValueError: ndim"
            ELSE IF Len(x.f_vector) # sh[2] THEN "ValueError: frequency"
            ELSE ""

\* lines 91, 132
exp_num_channels(x) ==
    IF x.is_uniform
    THEN IF Ndim(x.data) = exp_num_dims(x) + 2 THEN x.data.shape[exp_num_dims(x) + 2] ELSE 1
    ELSE IF Ndim(x.data) = 3 THEN x.data.shape[3] ELSE 1

\* lines 66, 125
exp_num_dims_for_file(x) ==
    IF ~x.is_uniform /\ exp_num_dims(x) = 0 THEN 1 ELSE exp_num_dims(x)

\* MUTANT of file_dim_size_param: the non-uniform sizes stay np.ones(num_dims)
file_dim_size_param_ones(x) ==
    IF x.is_uniform THEN exp_dim_size_np(x)
    ELSE IF exp_num_dims(x) > 0
         THEN [i \in 1..exp_num_dims(x) |-> 1]
         ELSE <<x.data.shape[1]>>

\* lines 92, 120-126
file_dim_size_param(x) ==
    IF x.is_uniform THEN exp_dim_size_np(x)
    ELSE IF exp_num_dims(x) > 0
         THEN [i \in 1..exp_num_dims(x) |-> IF i = 1 THEN x.data.shape[1] ELSE 1]
         ELSE <<x.data.shape[1]>>

\* line 137
dim_order_for_file(x) == Arange(exp_num_dims_for_file(x))

\* MUTANT of exp_channel_names: a too-long list of names is written whole
exp_channel_names_no_truncate(x) ==
    LET names == x.header_in.channel_names
        nc == exp_num_channels(x)
    IN  IF Len(names) < nc
        THEN names \o [k \in 1..(nc - Len(names)) |-> DefaultChannelName(Len(names) + k)]
        ELSE names

\* lines 149-159
exp_channel_names(x) ==
    LET names == x.header_in.channel_names
        nc == exp_num_channels(x)
    IN  IF Len(names) < nc
        THEN names \o [k \in 1..(nc - Len(names)) |-> DefaultChannelName(Len(names) + k)]
        ELSE IF Len(names) > nc THEN Take(names, nc)
        ELSE names

exp_warnings(x) ==
    (IF ~x.is_uniform /\ exp_num_dims(x) = 0 THEN {"zero axes"} ELSE {})
    \cup (IF Len(x.header_in.channel_names) < exp_num_channels(x)
          THEN {"channel names appended"} ELSE {})
    \cup (IF Len(x.header_in.channel_names) > exp_num_channels(x)
          THEN {"channel names ignored"} ELSE {})

\* lines 188-225: everything written before the measurement data is prepared
exp_header_fields(x) ==
    LET ndf == exp_num_dims_for_file(x)
        names == exp_channel_names(x)
    IN  << Field("magic", <<scan_file_code>>),
           Field("version", <<scan_file_version>>),
           Field("header", write_string_as_doubles(x.header_in.header)),
           Field("description", write_string_as_doubles(x.header_in.description)),
           Field("device_name", write_string_as_doubles(x.header_in.device_name)),
           Field("is_uniform", <<Bool2Float(x.is_uniform)>>),
           Field("num_dims", <<ndf>>),
           Field("dim_order", IF ndf > 0 THEN dim_order_for_file(x) ELSE <<>>),
           Field("dim_size", IF ndf > 0 THEN file_dim_size_param(x) ELSE <<>>),
           Field("num_channels", <<exp_num_channels(x)>>),
           Field("channel_names",
                 Concat([k \in 1..Len(names) |->
                            Field("name", write_string_as_doubles(names[k]))])),
           Field("num_f", <<Len(x.f_vector)>>),
           Field("is_complex", <<Bool2Float(x.data.cplx)>>),
           Field("relative",
                 IF exp_num_dims(x) > 0
                 THEN Concat([k \in 1..exp_num_dims(x) |-> Field("c", x.axis_coordinates[k])])
                 ELSE IF ~x.is_uniform THEN Zeros(x.data.shape[1]) ELSE <<>>),
           Field("absolute",
                 IF exp_num_dims(x) > 0
                 THEN Concat([k \in 1..exp_num_dims(x) |-> Field("c", x.axis_coordinates[k])])
                 ELSE IF ~x.is_uniform THEN Zeros(x.data.shape[1]) ELSE <<>>),
           Field("f_vector", x.f_vector) >>

\* numpy broadcasting of two 1-D operands of "+": ok is FALSE when it raises
BroadcastAdd(a, b) ==
    IF Len(a) = Len(b) THEN [ok |-> TRUE, val |-> [i \in 1..Len(a) |-> a[i] + b[i]]]
    ELSE IF Len(a) = 1 THEN [ok |-> TRUE, val |-> [i \in 1..Len(b) |-> a[1] + b[i]]]
    ELSE IF Len(b) = 1 THEN [ok |-> TRUE, val |-> [i \in 1..Len(a) |-> a[i] + b[1]]]
    ELSE [ok |-> FALSE, val |-> <<>>]

\* MUTANT of raster_flip_pass: the reversed stripe is copied in place through
\* an aliasing view, so the second half of each stripe reads overwritten values
raster_flip_pass_aliased(a, dim_size_np, i) ==
    LET reshape_target == <<a.shape[1], a.shape[2], Prod(Take(dim_size_np, i)),
                            dim_size_np[i + 1], Prod(Drop(dim_size_np, i + 1))>>
        a5 == ReshapeC(a, reshape_target)
        flipped == MkArray(a5.shape, a5.cplx,
        [k \in 1..Prod(a5.shape) |->
            LET idx == CUnravel(a5.shape, k - 1)
            IN  IF idx[5] % 2 = 1
                                  THEN Elem(a5, [idx EXCEPT ![4] =
                                         Max(idx[4], a5.shape[4] - 1 - idx[4])])
                                  ELSE Elem(a5, idx)])
    IN  ReshapeC(flipped, a.shape)

\* lines 248-272: one pass of the raster flip, i 0-based, a of shape (Nf,Nc,S0,...)
raster_flip_pass(a, dim_size_np, i) ==
    LET prod_dims_before == Prod(Take(dim_size_np, i))
        current_logical_dim_size == dim_size_np[i + 1]
        prod_dims_after == Prod(Drop(dim_size_np, i + 1))
        reshape_target == <<a.shape[1], a.shape[2], prod_dims_before,
                            current_logical_dim_size, prod_dims_after>>
    IN  ReshapeC(FlipOddStripes(ReshapeC(a, reshape_target)), a.shape)

\* lines 244-272: the loop for i in range(num_dims - 1), from pass i on
RECURSIVE raster_flip_from(_, _, _)
raster_flip_from(a, dim_size_np, i) ==
    IF i >= Len(dim_size_np) - 1 THEN a
    ELSE raster_flip_from(raster_flip_pass(a, dim_size_np, i), dim_size_np, i + 1)

raster_flip(a, dim_size_np) == raster_flip_from(a, dim_size_np, 0)

\* lines 228-280: data_to_process, ok FALSE when a numpy call raises
exp_data_to_process(x) ==
    LET nd == exp_num_dims(x)
        sh == x.data.shape
        fail == [ok |-> FALSE, a |-> x.data]
        target == IF x.is_uniform
                  THEN BroadcastAdd(Take(sh, nd), <<Len(x.f_vector), 1>>)
                  ELSE BroadcastAdd(sh, <<1>>)
        implicit == IF x.is_uniform THEN Ndim(x.data) = nd + 1 ELSE Ndim(x.data) = 2
        axes == IF x.is_uniform THEN <<nd, nd + 1>> \o Arange(nd) ELSE <<1, 2, 0>>
    IN  IF implicit /\ (~target.ok \/ ~CanReshape(x.data, target.val)) THEN fail
        ELSE LET d1 == IF implicit THEN ReshapeC(x.data, target.val) ELSE x.data
             IN  IF ~CanTranspose(d1, axes) THEN fail
                 ELSE LET d2 == Transpose(d1, axes)
                      IN  [ok |-> TRUE,
                           a |-> IF x.is_uniform /\ nd > 1
                                 THEN raster_flip(d2, exp_dim_size_np(x))
                                 ELSE d2]

\* MUTANT of final_data_payload: real and imaginary parts are interleaved
final_data_payload_interleaved(a) ==
    LET fl == RavelF(a)
    IN  IF a.cplx
        THEN [k \in 1..(2 * Len(fl)) |-> fl[(k + 1) \div 2][IF k % 2 = 1 THEN 1 ELSE 2]]
        ELSE [k \in 1..Len(fl) |-> fl[k][1]]

\* lines 282-291
final_data_payload(a) ==
    LET fl == RavelF(a)
    IN  IF a.cplx
        THEN [k \in 1..Len(fl) |-> fl[k][1]] \o [k \in 1..Len(fl) |-> fl[k][2]]
        ELSE [k \in 1..Len(fl) |-> fl[k][1]]

\* MUTANT of export_scan: the output file is opened before the arguments are checked
export_scan_open_first(x, old) ==
    LET err == export_validate(x)
        prep == exp_data_to_process(x)
        head == Concat(exp_header_fields(x))
    IN  IF err # ""
        THEN [status |-> "error", err |-> err, warnings |-> {}, opened |-> TRUE,
              file |-> FileOf(<<>>)]
        ELSE IF ~prep.ok
        THEN [status |-> "error", err |-> "ValueError: unexpected error",
              warnings |-> exp_warnings(x), opened |-> TRUE, file |-> FileOf(head)]
        ELSE [status |-> "ok", err |-> "", warnings |-> exp_warnings(x),
              opened |-> TRUE, file |-> FileOf(head \o final_data_payload(prep.a))]

\* the whole call: outcome and the file it leaves at the output path
export_scan(x, old) ==
    LET err == export_validate(x)
    IN  IF err # ""
        THEN [status |-> "error", err |-> err, warnings |-> {}, opened |-> FALSE,
              file |-> old]
        ELSE LET prep == exp_data_to_process(x)
                 head == Concat(exp_header_fields(x))
             IN  IF ~prep.ok
                 THEN [status |-> "error", err |-> "ValueError: unexpected error",
                       warnings |-> exp_warnings(x), opened |-> TRUE,
                       file |-> FileOf(head)]
                 ELSE [status |-> "ok", err |-> "", warnings |-> exp_warnings(x),
                       opened |-> TRUE,
                       file |-> FileOf(head \o final_data_payload(prep.a))]

(* ------------------------ importScan.import_scan ----------------------- *)

\* lines 92-96: read_string at position pos (doubles consumed so far);
\* ok is FALSE when struct.unpack raises struct.error on a short read
read_string(v, pos) ==
    IF pos + 1 > Len(v) THEN [ok |-> FALSE, s |-> <<>>, pos |-> Len(v)]
    ELSE LET length == v[pos + 1]
         IN  IF pos + 1 + length > Len(v)
             THEN [ok |-> FALSE, s |-> <<>>, pos |-> Len(v)]
             ELSE [ok |-> TRUE, s |-> SubSeq(v, pos + 2, pos + 1 + length),
                   pos |-> pos + 1 + length]

\* line 115: [read_string(f) for _ in range(k)]
RECURSIVE read_strings(_, _, _)
read_strings(v, pos, k) ==
    IF k <= 0 THEN [ok |-> TRUE, names |-> <<>>, pos |-> pos]
    ELSE LET r == read_string(v, pos)
         IN  IF ~r.ok THEN [ok |-> FALSE, names |-> <<>>, pos |-> r.pos]
             ELSE LET rest == read_strings(v, r.pos, k - 1)
                  IN  [ok |-> rest.ok, names |-> <<r.s>> \o rest.names, pos |-> rest.pos]

\* np.frombuffer(f.read(8 * n), dtype='<d'): a short read gives a shorter
\* array, and raises only when the bytes read are no multiple of 8
read_buffer(fl, pos, n) ==
    IF pos + n <= Len(fl.vals)
    THEN [ok |-> TRUE, vals |-> SubSeq(fl.vals, pos + 1, pos + n), pos |-> pos + n]
    ELSE [ok |-> fl.frac = 0, vals |-> SubSeq(fl.vals, pos + 1, Len(fl.vals)),
          pos |-> Len(fl.vals)]

\* lines 122-136: the relative coordinate vectors, one read_buffer per axis
RECURSIVE read_coords(_, _, _)
read_coords(fl, pos, sizes) ==
    IF Len(sizes) = 0 THEN [ok |-> TRUE, coords |-> <<>>, pos |-> pos]
    ELSE LET r == read_buffer(fl, pos, Head(sizes))
         IN  IF ~r.ok THEN [ok |-> FALSE, coords |-> <<>>, pos |-> r.pos]
             ELSE LET rest == read_coords(fl, r.pos, Tail(sizes))
                  IN  [ok |-> rest.ok, coords |-> <<r.vals>> \o rest.coords,
                       pos |-> rest.pos]

ImportError(err, pos) ==
    [status |-> "error", err |-> err, warnings |-> {}, pos |-> pos,
     coords |-> <<>>, f |-> <<>>, data |-> [shape |-> <<>>, cplx |-> FALSE, flat |-> <<>>],
     header |-> [header |-> <<>>, description |-> <<>>, device_name |-> <<>>,
                 channel_names |-> <<>>, is_uniform |-> FALSE]]

\* MUTANT of imp_reorganize: the real payload is unflattened in C order
imp_reorganize_c_order(data_raw, is_complex, num_f, num_channels, num_spatial_points) ==
    [shape |-> <<num_f, num_channels, num_spatial_points>>, cplx |-> is_complex,
     flat |-> [k \in 1..(num_f * num_channels * num_spatial_points) |-> <<data_raw[k], 0>>]]

\* lines 182-218: the (num_f, num_channels, num_spatial_points) array of the payload
imp_reorganize(data_raw, is_complex, num_f, num_channels, num_spatial_points) ==
    LET raw == [shape |-> <<Len(data_raw)>>, cplx |-> FALSE, flat |-> data_raw]
    IN  IF is_complex
        THEN LET reshaped_for_complex ==
                     ReshapeF(raw, <<num_f * num_channels, 2, num_spatial_points>>)
                 data_complex_matlab_style ==
                     MkArray(<<num_f * num_channels, num_spatial_points>>, TRUE,
        [k \in 1..Prod(<<num_f * num_channels, num_spatial_points>>) |->
            LET idx == CUnravel(<<num_f * num_channels, num_spatial_points>>, k - 1)
            IN  <<Elem(reshaped_for_complex, <<idx[1], 0, idx[2]>>),
                                            Elem(reshaped_for_complex, <<idx[1], 1, idx[2]>>)>>])
             IN  ReshapeF(data_complex_matlab_style,
                          <<num_f, num_channels, num_spatial_points>>)
        ELSE LET r == ReshapeF(raw, <<num_f, num_channels, num_spatial_points>>)
             IN  [r EXCEPT !.flat = [k \in 1..Len(r.flat) |-> <<r.flat[k], 0>>]]

\* MUTANT of imp_version_info: the version is read and checked before the magic
imp_version_info_version_first(v) ==
    IF Len(v) < 2 THEN [err |-> "ValueError: corrupted", pos |-> Len(v)]
    ELSE IF v[2] # scan_file_version THEN [err |-> "ValueError: not supported", pos |-> 2]
    ELSE IF v[1] # scan_file_code THEN [err |-> "ValueError: not recognized", pos |-> 2]
    ELSE [err |-> "", pos |-> 2]

\* lines 82-89: magic code, then version; err "" when both are accepted
imp_version_info(v) ==
    IF Len(v) < 1 THEN [err |-> "ValueError: corrupted", pos |-> Len(v)]
    ELSE IF v[1] # scan_file_code THEN [err |-> "ValueError: not recognized", pos |-> 1]
    ELSE IF Len(v) < 2 THEN [err |-> "ValueError: corrupted", pos |-> Len(v)]
    ELSE IF v[2] # scan_file_version THEN [err |-> "ValueError: not supported", pos |-> 2]
    ELSE [err |-> "", pos |-> 2]

\* lines 80-223: everything inside the try block; status "ok" carries the
\* fields the rest of import_scan works on
imp_read(fl) ==
    LET v == fl.vals
        n == Len(v)
        s1 == read_string(v, 2)
        s2 == read_string(v, s1.pos)
        s3 == read_string(v, s2.pos)
        p0 == s3.pos
        is_uniform == v[p0 + 1] # 0
        num_dims == v[p0 + 2]
        dim_order == [i \in 1..num_dims |-> 1 + v[p0 + 2 + i]]
        dim_size == [i \in 1..num_dims |-> v[p0 + 2 + num_dims + i]]
        p1 == p0 + 2 + 2 * num_dims
        num_channels == v[p1 + 1]
        names == read_strings(v, p1 + 1, num_channels)
        p2 == names.pos
        num_f == v[p2 + 1]
        is_complex == v[p2 + 2] # 0
        sizes == IF is_uniform THEN dim_size ELSE [i \in 1..num_dims |-> dim_size[1]]
        rel == read_coords(fl, p2 + 2, sizes)
        p3 == Min(rel.pos + Sum(sizes), n)
        \* the discarding f.read also swallows a trailing partial value
        fl2 == IF rel.pos + Sum(sizes) > n THEN [fl EXCEPT !.frac = 0] ELSE fl
        fr == read_buffer(fl2, p3, num_f)
        num_spatial_points == IF is_uniform THEN Prod(dim_size) ELSE dim_size[1]
        num_data_points_to_read ==
            num_f * num_channels * num_spatial_points * (IF is_complex THEN 2 ELSE 1)
        dr == read_buffer(fl2, fr.pos, num_data_points_to_read)
        data_raw == dr.vals \o Zeros(num_data_points_to_read - Len(dr.vals))
        extra_data == dr.pos < n \/ fl2.frac > 0
        vi == imp_version_info(v)
    IN  IF vi.err # "" THEN ImportError(vi.err, vi.pos)
        ELSE IF ~s1.ok \/ ~s2.ok \/ ~s3.ok \/ p0 + 2 > n \/ p1 + 1 > n
                \/ ~names.ok \/ p2 + 2 > n
             THEN ImportError("ValueError: corrupted", n)
        ELSE IF ~is_uniform /\ num_dims = 0 THEN ImportError("IndexError", p2 + 2)
        ELSE IF ~rel.ok THEN ImportError("ValueError: buffer size", n)
        ELSE IF ~fr.ok THEN ImportError("ValueError: buffer size", n)
        ELSE IF ~dr.ok THEN ImportError("ValueError: buffer size", n)
        ELSE [status |-> "ok", err |-> "", pos |-> dr.pos,
              warnings |-> (IF Len(dr.vals) < num_data_points_to_read
                            THEN {"padded with zeros"} ELSE {})
                           \cup (IF extra_data THEN {"extra data ignored"} ELSE {}),
              is_uniform |-> is_uniform, num_dims |-> num_dims,
              dim_order |-> dim_order, dim_size |-> dim_size,
              num_channels |-> num_channels, num_f |-> num_f,
              is_complex |-> is_complex, axis_coordinates |-> rel.coords,
              freq_vector |-> fr.vals, data_raw |-> data_raw,
              data |-> imp_reorganize(data_raw, is_complex, num_f, num_channels,
                                      num_spatial_points),
              header |-> [header |-> s1.s, description |-> s2.s, device_name |-> s3.s,
                          channel_names |-> names.names, is_uniform |-> is_uniform]]

\* lines 83-159: the stream position (in values) after each field import_scan
\* reads: magic, version, the three strings, uniform flag, num_dims, dim_order,
\* dim_size, channel count, channel names, num_f, complex flag, relative
\* coordinates, absolute coordinates, frequency vector, measurement data
imp_positions(fl) ==
    LET v == fl.vals
        n == Len(v)
        s1 == read_string(v, 2)
        s2 == read_string(v, s1.pos)
        s3 == read_string(v, s2.pos)
        p0 == s3.pos
        is_uniform == v[p0 + 1] # 0
        num_dims == v[p0 + 2]
        dim_size == [i \in 1..num_dims |-> v[p0 + 2 + num_dims + i]]
        p1 == p0 + 2 + 2 * num_dims
        num_channels == v[p1 + 1]
        names == read_strings(v, p1 + 1, num_channels)
        p2 == names.pos
        num_f == v[p2 + 1]
        is_complex == v[p2 + 2] # 0
        sizes == IF is_uniform THEN dim_size ELSE [i \in 1..num_dims |-> dim_size[1]]
        rel == read_coords(fl, p2 + 2, sizes)
        p3 == Min(rel.pos + Sum(sizes), n)
        fr == read_buffer(fl, p3, num_f)
        num_spatial_points == IF is_uniform THEN Prod(dim_size) ELSE dim_size[1]
        dr == read_buffer(fl, fr.pos, num_f * num_channels * num_spatial_points
                                          * (IF is_complex THEN 2 ELSE 1))
    IN  IF imp_read(fl).status # "ok" THEN <<>>
        ELSE <<1, 2, s1.pos, s2.pos, p0, p0 + 1, p0 + 2, p0 + 2 + num_dims, p1,
               p1 + 1, p2, p2 + 1, p2 + 2, rel.pos, p3, fr.pos, dr.pos>>

\* num_output_dimensions=None
NoneRequested == 0 - 1

\* lines 227-231
last_significant_dim(dim_size) ==
    IF \E i \in 1..Len(dim_size) : dim_size[i] > 1
    THEN CHOOSE i \in 1..Len(dim_size) :
             dim_size[i] > 1 /\ \A j \in (i + 1)..Len(dim_size) : dim_size[j] <= 1
    ELSE 0

\* lines 233-245
final_num_output_dims(requested_num_dims, num_dims, dim_size) ==
    IF requested_num_dims = NoneRequested
    THEN IF num_dims > 0 THEN Max(1, last_significant_dim(dim_size)) ELSE 0
    ELSE requested_num_dims

\* np.squeeze(data, axis=1)
Squeeze1(a) == [a EXCEPT !.shape = <<a.shape[1]>> \o Drop(a.shape, 2)]

\* lines 297-367: one iteration of the decoder's raster-flip loop; i_left is
\* the value the name i holds when the loop starts
imp_flip_iteration(data, num_f, num_channels, dim_order, dim_size, i_left) ==
    LET matlab_ii == i_left
        fail(e) == [ok |-> FALSE, err |-> e, data |-> data]
        order_ok == \A k \in 1..Len(dim_order) : dim_order[k] \in 1..Len(dim_size)
        output_dim_size_ordered == [k \in 1..Len(dim_order) |-> dim_size[dim_order[k]]]
        Nx == dim_size[1]
        Ny == dim_size[2]
        target_shape_for_flip == <<num_f, num_channels, 1, Ny, Nx>>
        temp_data_reshaped == FlipOddStripes(ReshapeF(data, target_shape_for_flip))
        shape == <<num_f, num_channels>> \o output_dim_size_ordered
        reshaped == ReshapeC(temp_data_reshaped, shape)
        squeezed == IF reshaped.shape[2] = 1 THEN Squeeze1(reshaped) ELSE reshaped
    IN  IF ~order_ok THEN fail("IndexError")
        ELSE IF matlab_ii > Len(output_dim_size_ordered) THEN fail("IndexError")
        ELSE IF ~CanReshape(data, target_shape_for_flip) THEN fail("Exception: reshape failed")
        ELSE IF ~CanReshape(temp_data_reshaped, shape) THEN fail("ValueError: reshape")
        ELSE IF ~CanTranspose(squeezed, <<2, 1, 0>>) THEN fail("ValueError: axes")
        ELSE [ok |-> TRUE, err |-> "", data |-> Transpose(squeezed, <<2, 1, 0>>)]

\* line 296: for ii in range(actual_num_dims - 1), count iterations left
RECURSIVE imp_flip_loop(_, _, _, _, _, _, _)
imp_flip_loop(data, count, num_f, num_channels, dim_order, dim_size, i_left) ==
    IF count <= 0 THEN [ok |-> TRUE, err |-> "", data |-> data]
    ELSE LET r == imp_flip_iteration(data, num_f, num_channels, dim_order, dim_size, i_left)
         IN  IF ~r.ok THEN r
             ELSE imp_flip_loop(r.data, count - 1, num_f, num_channels, dim_order,
                                dim_size, i_left)

\* lines 225-377: reconcile the dimensions, build the coordinates, reorder the data
imp_finish(rd, requested_num_dims) ==
    LET lsd == last_significant_dim(rd.dim_size)
        final == final_num_output_dims(requested_num_dims, rd.num_dims, rd.dim_size)
        drop == final < rd.num_dims
                /\ \A j \in (final + 1)..rd.num_dims : rd.dim_size[j] = 1
        actual_num_dims == IF drop THEN final ELSE rd.num_dims
        dim_order == IF drop
                     THEN SelectSeq(rd.dim_order, LAMBDA o : o <= actual_num_dims)
                     ELSE rd.dim_order
        dim_size == IF drop THEN Take(rd.dim_size, actual_num_dims) ELSE rd.dim_size
        num_pts_non_uniform ==
            IF actual_num_dims > 0 THEN Len(rd.axis_coordinates[1])
            ELSE IF Len(dim_size) > 0 THEN dim_size[1] ELSE 1
        extra_coord == IF rd.is_uniform THEN <<0>> ELSE Zeros(num_pts_non_uniform)
        output_coords == Take(rd.axis_coordinates, actual_num_dims)
                         \o [k \in 1..(final - actual_num_dims) |-> extra_coord]
        i_left == IF final > actual_num_dims THEN final - 1 ELSE actual_num_dims - 1
        flipped == IF rd.is_uniform
                   THEN imp_flip_loop(rd.data, actual_num_dims - 1, rd.num_f,
                                      rd.num_channels, dim_order, dim_size, i_left)
                   ELSE [ok |-> TRUE, err |-> "", data |-> Transpose(rd.data, <<2, 0, 1>>)]
        warn == rd.warnings
                \cup (IF requested_num_dims = NoneRequested /\ final # rd.num_dims
                         /\ rd.num_dims > 0
                      THEN {"output dimensions inferred"} ELSE {})
                \cup (IF final > actual_num_dims THEN {"extra singleton dimensions"} ELSE {})
    IN  IF final < lsd THEN ImportError("ValueError: last significant dimension", rd.pos)
        ELSE IF ~flipped.ok THEN ImportError(flipped.err, rd.pos)
        ELSE [status |-> "ok", err |-> "", warnings |-> warn, pos |-> rd.pos,
              coords |-> output_coords, f |-> rd.freq_vector, data |-> flipped.data,
              header |-> rd.header]

\* the whole call on the file the dialog selected
import_scan(fl, num_output_dimensions) ==
    IF ~fl.exists THEN ImportError("FileNotFoundError", 0)
    ELSE LET rd == imp_read(fl)
         IN  IF rd.status # "ok" THEN rd ELSE imp_finish(rd, num_output_dimensions)

(* ------------------------------ inputs --------------------------------- *)
\* strings are sequences of character codes
Str_h == <<104>>
Str_de == <<100, 101>>
Str_dev == <<>>
ChannelLabel(k) == <<64 + k>>

SeqFill(n, cplx) == [k \in 1..n |-> <<k, IF cplx THEN 1000 + k ELSE 0>>]

\* axis i's coordinate vector of length n: increasing values
CoordVec(i, n) == [j \in 1..n |-> 10 * i + j]

\* spatial shapes of the model: at most MaxDims axes of 1..MaxDimSize points
Shapes(maxDims, maxPoints) ==
    {s \in UNION {[1..n -> 1..MaxDimSize] : n \in 0..maxDims} : Prod(s) <= maxPoints}

Defects == {"none", "type", "coord_len", "f_len", "ndim_low", "ndim_high"}

\* a call's arguments: spatial sizes dims (uniform) or naxes vectors of dims[1]
\* points (non-uniform), nf frequencies, nc channels, the channel axis left out
\* when implicit, nnames channel names, and one defect that makes it invalid
MkInput(uniform, naxes, dims, nf, nc, implicit, cplx, nnames, defect) ==
    LET npts == IF Len(dims) > 0 THEN dims[1] ELSE 1
        lens == IF uniform THEN dims ELSE [i \in 1..naxes |-> npts]
        coords == [i \in 1..Len(lens) |->
                      CoordVec(i, lens[i] + (IF defect = "coord_len" /\ i = 1 THEN 1 ELSE 0))]
        spatial == IF uniform THEN dims ELSE <<npts>>
        shape == IF defect = "ndim_low" THEN Take(spatial, Len(spatial) - 1)
                 ELSE spatial \o <<nf>> \o (IF implicit THEN <<>> ELSE <<nc>>)
                      \o (IF defect = "ndim_high" THEN <<1, 1>> ELSE <<>>)
    IN  [is_uniform |-> uniform,
         types_ok |-> defect # "type",
         axis_coordinates |-> coords,
         f_vector |-> [k \in 1..(nf + (IF defect = "f_len" THEN 1 ELSE 0)) |-> 100 + k],
         data |-> [shape |-> shape, cplx |-> cplx, flat |-> SeqFill(Prod(shape), cplx)],
         header_in |-> [header |-> Str_h, description |-> Str_de, device_name |-> Str_dev,
                        channel_names |-> [k \in 1..nnames |-> ChannelLabel(k)]]]

(* ----------------------- exportScanSD.export_scan ---------------------- *)
\* s.encode('ascii') raises on a code above 127
IsAscii(text) == \A k \in 1..Len(text) : text[k] <= 127
\* lines 9-17
write_string(text) == <<Len(text)>> \o text

\* lines 63-107: the checks made before the file is opened, "" when they pass
sd_validate(y) ==
    LET num_spatial_points == IF y.is_uniform THEN Prod(y.dim_size) ELSE y.dim_size[1]
        expected_data_shape ==
            <<num_spatial_points, Len(y.freqs), Len(y.channel_names)>>
    IN  IF ~y.coords_is_list THEN "ValueError: coords must be a list"
        ELSE IF Len(y.coords) # 2 THEN "ValueError: two sets"
        ELSE IF ~y.header_ok THEN "NameError"
        ELSE IF ~y.types_ok THEN "ValueError: must be a numpy array"
        ELSE IF Ndim(y.data) < 2 THEN "ValueError: at least 2 dimensions"
        ELSE IF Len(y.channel_names) # y.data.shape[Ndim(y.data)]
             THEN "ValueError: channel names"
        ELSE IF y.data.shape # expected_data_shape THEN "ValueError: data shape"
        ELSE ""

\* lines 147-191: the field groups in writing order
sd_fields(y) ==
    LET names == y.channel_names
        coords_to_write == <<y.coords[2], y.coords[1]>>
        dim_order_to_write == <<1, 0>>
    IN  << Field("magic", <<scan_file_code>>),
           Field("version", <<scan_file_version>>),
           Field("header", write_string(y.header_string)),
           Field("description", write_string(y.description_string)),
           Field("device_name", write_string(y.device_name_string)),
           Field("is_uniform", <<Bool2Float(y.is_uniform)>>),
           Field("num_dims", <<Len(y.coords)>>),
           Field("dim_order", dim_order_to_write),
           Field("dim_size", y.dim_size),
           Field("num_channels", <<Len(names)>>),
           Field("channel_names",
                 Concat([k \in 1..Len(names) |-> Field("name", write_string(names[k]))])),
           Field("num_f", <<Len(y.freqs)>>),
           Field("is_complex", <<Bool2Float(y.data.cplx)>>),
           Field("relative", Concat([k \in 1..2 |-> Field("c", y.coords[k])])),
           Field("absolute", Concat([k \in 1..2 |-> Field("c", coords_to_write[k])])),
           Field("f_vector", y.freqs),
           Field("data", final_data_payload(Transpose(y.data, <<1, 2, 0>>))) >>

\* the strings written, in writing order
sd_strings(y) ==
    <<y.header_string, y.description_string, y.device_name_string>> \o y.channel_names

\* lines 147-174: what the file holds when write_string raises on the first
\* string that is not ASCII (nothing of that string is written)
sd_partial(y) ==
    LET f == sd_fields(y)
        names == y.channel_names
        bad == {k \in 1..Len(names) : ~IsAscii(names[k])}
        firstbad == CHOOSE k \in bad : \A j \in bad : k <= j
    IN  IF ~IsAscii(y.header_string) THEN Concat(Take(f, 2))
        ELSE IF ~IsAscii(y.description_string) THEN Concat(Take(f, 3))
        ELSE IF ~IsAscii(y.device_name_string) THEN Concat(Take(f, 4))
        ELSE Concat(Take(f, 10))
             \o Concat([k \in 1..(firstbad - 1) |-> Field("name", write_string(names[k]))])

\* MUTANT of export_scan_SD: the partially written file is left in place
export_scan_SD_keep_partial(y, old, remove_ok) ==
    LET err == sd_validate(y)
    IN  IF err # ""
        THEN [status |-> "error", err |-> err, warnings |-> {}, opened |-> FALSE,
              file |-> old]
        ELSE IF \E k \in 1..Len(sd_strings(y)) : ~IsAscii(sd_strings(y)[k])
        THEN [status |-> "error", err |-> "IOError", warnings |-> {}, opened |-> TRUE,
              file |-> FileOf(sd_partial(y))]
        ELSE [status |-> "ok", err |-> "", warnings |-> {}, opened |-> TRUE,
              file |-> FileOf(Concat(sd_fields(y)))]

\* the whole call: a failure after open removes the file (lines 193-199);
\* remove_ok is FALSE when os.remove raises OSError
export_scan_SD(y, old, remove_ok) ==
    LET err == sd_validate(y)
    IN  IF err # ""
        THEN [status |-> "error", err |-> err, warnings |-> {}, opened |-> FALSE,
              file |-> old]
        ELSE IF \E k \in 1..Len(sd_strings(y)) : ~IsAscii(sd_strings(y)[k])
        THEN IF remove_ok
             THEN [status |-> "error", err |-> "IOError", warnings |-> {},
                   opened |-> TRUE, file |-> NoFile]
             ELSE [status |-> "error", err |-> "IOError",
                   warnings |-> {"failed to remove incomplete file"},
                   opened |-> TRUE, file |-> FileOf(sd_partial(y))]
        ELSE [status |-> "ok", err |-> "", warnings |-> {}, opened |-> TRUE,
              file |-> FileOf(Concat(sd_fields(y)))]

SDDefects == {"none", "type", "not_list", "coords_count", "header", "names", "shape",
              "ndim_low", "coord_len"}

\* arguments of exportScanSD.export_scan for an a x b scan
MkInputSD(uniform, a, b, nf, nc, cplx, defect) ==
    LET dim_size == IF uniform THEN <<a, b>> ELSE <<a * b, 1>>
        npts == a * b
        lens == IF uniform THEN <<a, b>> ELSE <<npts, npts>>
        shape == IF defect = "ndim_low" THEN <<npts>>
                 ELSE <<npts, nf + (IF defect = "shape" THEN 1 ELSE 0), nc>>
    IN  [is_uniform |-> uniform,
         coords_is_list |-> defect # "not_list",
         header_ok |-> defect # "header",
         types_ok |-> defect # "type",
         coords |-> [i \in 1..(IF defect = "coords_count" THEN 3 ELSE 2) |->
                        CoordVec(i, lens[IF i > 2 THEN 2 ELSE i]
                                    + (IF defect = "coord_len" /\ i = 1 THEN 1 ELSE 0))],
         freqs |-> [k \in 1..nf |-> 100 + k],
         dim_size |-> dim_size,
         data |-> [shape |-> shape, cplx |-> cplx, flat |-> SeqFill(Prod(shape), cplx)],
         header_string |-> Str_h, description_string |-> Str_de,
         device_name_string |-> Str_dev,
         channel_names |-> [k \in 1..(nc + (IF defect = "names" THEN 1 ELSE 0)) |->
                               ChannelLabel(k)]]

(* --------------------------- the state machine ------------------------- *)
\* valid calls of exportScan.export_scan
ValidInputs ==
    {MkInput(TRUE, Len(d), d, nf, nc, implicit, cplx, nc, "none") :
        d \in Shapes(MaxDims, MaxPoints), nf \in 1..MaxFreq, nc \in 1..MaxChannels,
        implicit \in BOOLEAN, cplx \in BOOLEAN}
    \cup
    {MkInput(FALSE, naxes, <<npts>>, nf, nc, implicit, cplx, nc, "none") :
        naxes \in 0..MaxDims, npts \in 1..MaxDimSize, nf \in 1..MaxFreq,
        nc \in 1..MaxChannels, implicit \in BOOLEAN, cplx \in BOOLEAN}

\* implicit channel axis means one channel
WellShaped(x) ==
    LET nsp == IF x.is_uniform THEN Len(x.axis_coordinates) ELSE 1
    IN  Ndim(x.data) = nsp + 2 \/ Len(x.header_in.channel_names) = 1

\* calls whose channel-name list is too short or too long
NameInputs ==
    {MkInput(FALSE, 1, <<npts>>, 1, nc, FALSE, FALSE, nn, "none") :
        npts \in 1..MaxDimSize, nc \in 1..MaxChannels, nn \in 0..(MaxChannels + 1)}

\* calls with one defect in the arguments
DefectInputs ==
    {MkInput(u, Len(d), d, 1, 1, FALSE, FALSE, 1, defect) :
        u \in BOOLEAN, d \in Shapes(MaxDims, MaxPoints), defect \in Defects \ {"none"}}

\* character codes outside ASCII: one of Latin-1, one above 255
StringCodes == {233, 300}
StringSlots == {"header", "description", "device_name", "channel"}

\* calls with one string holding a character that is not ASCII
StringInputs ==
    {LET x == MkInput(FALSE, 1, <<2>>, 1, 2, FALSE, FALSE, 2, "none")
         h == x.header_in
     IN  [x EXCEPT !.header_in =
            [header |-> IF slot = "header" THEN <<104, c>> ELSE h.header,
             description |-> IF slot = "description" THEN <<c>> ELSE h.description,
             device_name |-> IF slot = "device_name" THEN <<c, 100>> ELSE h.device_name,
             channel_names |-> IF slot = "channel"
                               THEN <<h.channel_names[1], <<c>>>>
                               ELSE h.channel_names]] :
        slot \in StringSlots, c \in StringCodes}

Inputs ==
    {x \in ValidInputs : WellShaped(x)} \cup NameInputs \cup DefectInputs
    \cup StringInputs

\* calls of exportScanSD.export_scan with one string that is not ASCII
StringInputsSD ==
    {LET y == MkInputSD(FALSE, 2, 1, 1, 2, FALSE, "none")
     IN  [y EXCEPT
            !.header_string = IF slot = "header" THEN <<104, c>> ELSE @,
            !.description_string = IF slot = "description" THEN <<c>> ELSE @,
            !.device_name_string = IF slot = "device_name" THEN <<c, 100>> ELSE @,
            !.channel_names = IF slot = "channel" THEN <<@[1], <<c>>>> ELSE @] :
        slot \in StringSlots, c \in StringCodes}

InputsSD ==
    {MkInputSD(u, a, b, nf, nc, cplx, defect) :
        u \in BOOLEAN, a \in 1..MaxDimSize, b \in 1..2, nf \in 1..MaxFreq,
        nc \in 1..MaxChannels, cplx \in BOOLEAN, defect \in {"none"}}
    \cup
    {MkInputSD(u, a, 2, 1, 1, FALSE, defect) :
        u \in BOOLEAN, a \in 1..MaxDimSize, defect \in SDDefects}
    \cup StringInputsSD

\* no controller, driver, probe or thread exists while the codec runs
ScannerAtRest == mc = <<>> /\ driver = <<>> /\ probe = <<>> /\ caller = <<>>
ScannerIdle == UNCHANGED <<mc, driver, probe, caller>>

NoResult == [status |-> "none"]
NoTamper == [kind |-> "none", k |-> 0, frac |-> 0]

\* a file some earlier program left at the output path
OldFile == FileOf(<<0, 0>>)

Init ==
    /\ file \in {NoFile, OldFile}
    /\ input = [kind |-> "none"]
    /\ exp = NoResult
    /\ tamper = NoTamper
    /\ out = [requested |-> NoneRequested, res |-> NoResult]
    /\ pc = "start"
    /\ arr = <<>> /\ orig = <<>> /\ passes = 0
    /\ ScannerAtRest

FlipIdle == UNCHANGED <<arr, orig, passes>> /\ ScannerIdle

\* exportScan.export_scan(axis_coordinates, f_vector, data, header_in, is_uniform, filename)
Export(x) ==
    /\ pc = "start"
    /\ LET r == export_scan(x, file)
       IN  /\ file' = r.file
           /\ exp' = r
    /\ input' = [kind |-> "export_scan", x |-> x]
    /\ pc' = "exported"
    /\ UNCHANGED <<tamper, out>> /\ FlipIdle

\* exportScanSD.export_scan(filename_out, coords, data, freqs, dim_size, header)
ExportSD(y, remove_ok) ==
    /\ pc = "start"
    /\ LET r == export_scan_SD(y, file, remove_ok)
       IN  /\ file' = r.file
           /\ exp' = r
    /\ input' = [kind |-> "export_scan_SD", x |-> y]
    /\ pc' = "exported"
    /\ UNCHANGED <<tamper, out>> /\ FlipIdle

\* the file loses its last k values before it is read
Truncate(k) ==
    /\ pc = "exported" /\ exp.status = "ok"
    /\ k <= Len(file.vals)
    /\ file' = [file EXCEPT !.vals = Take(file.vals, Len(file.vals) - k)]
    /\ tamper' = [kind |-> "truncate", k |-> k, frac |-> 0]
    /\ pc' = "tampered"
    /\ UNCHANGED <<input, exp, out>> /\ FlipIdle

\* 8*q + r bytes are appended to the file before it is read
AppendBytes(q, r) ==
    /\ pc = "exported" /\ exp.status = "ok"
    /\ q + r > 0
    /\ file' = [file EXCEPT !.vals = file.vals \o [i \in 1..q |-> 7], !.frac = r]
    /\ tamper' = [kind |-> "append", k |-> q, frac |-> r]
    /\ pc' = "tampered"
    /\ UNCHANGED <<input, exp, out>> /\ FlipIdle

\* the stream ends early: the file keeps its first n values, followed by the
\* first bytes of the next value when r > 0
StreamEnds(n, r) ==
    /\ pc = "exported" /\ exp.status = "ok"
    /\ n < Len(file.vals)
    /\ file' = [file EXCEPT !.vals = Take(file.vals, n), !.frac = r]
    /\ tamper' = [kind |-> "cut", k |-> n, frac |-> r]
    /\ pc' = "tampered"
    /\ UNCHANGED <<input, exp, out>> /\ FlipIdle

\* the file's first (magic) and/or second (version) value is another number
Overwrite(badMagic, badVersion) ==
    /\ pc = "exported" /\ exp.status = "ok"
    /\ badMagic \/ badVersion
    /\ file' = [file EXCEPT !.vals = [i \in 1..Len(file.vals) |->
                    IF i = 1 /\ badMagic THEN scan_file_code + 1
                    ELSE IF i = 2 /\ badVersion THEN scan_file_version + 1
                    ELSE file.vals[i]]]
    /\ tamper' = [kind |-> "overwrite", k |-> Bool2Float(badMagic),
                  frac |-> Bool2Float(badVersion)]
    /\ pc' = "tampered"
    /\ UNCHANGED <<input, exp, out>> /\ FlipIdle

\* importScan.import_scan(num_output_dimensions) on the file
Import(r) ==
    /\ pc \in {"exported", "tampered"}
    /\ out' = [requested |-> r, res |-> import_scan(file, r)]
    /\ pc' = "imported"
    /\ UNCHANGED <<file, input, exp, tamper>> /\ FlipIdle

Next ==
    \/ \E x \in Inputs : Export(x)
    \/ \E y \in InputsSD, remove_ok \in BOOLEAN : ExportSD(y, remove_ok)
    \/ \E k \in 1..MaxTruncate : Truncate(k)
    \/ \E q \in 0..MaxExtraDoubles, r \in 0..MaxExtraFrac : AppendBytes(q, r)
    \/ \E n \in 0..MaxCut, r \in 0..MaxExtraFrac : StreamEnds(n, r)
    \/ \E bm \in BOOLEAN, bv \in BOOLEAN : Overwrite(bm, bv)
    \/ \E r \in {NoneRequested} \cup 0..MaxRequested : Import(r)

Spec == Init /\ [][Next]_vars

(* ------------- the encoder's raster flip applied repeatedly ------------ *)
\* spatial shapes with 2..MaxDims axes of 1..MaxFlipSize points
FlipShapes == UNION {[1..n -> 1..MaxFlipSize] : n \in 2..MaxDims}

\* the permuted array (Nf, Nc, S0, S1, ...) of export_scan line 237
PermutedArray(nf, nc, dims) ==
    [shape |-> <<nf, nc>> \o dims, cplx |-> FALSE,
     flat |-> SeqFill(nf * nc * Prod(dims), FALSE)]

InitFlip ==
    /\ file = NoFile
    /\ input = [kind |-> "none"]
    /\ exp = NoResult
    /\ tamper = NoTamper
    /\ out = [requested |-> NoneRequested, res |-> NoResult]
    /\ pc = "flip"
    /\ \E dims \in FlipShapes, nf \in 1..MaxFreq, nc \in 1..MaxChannels :
          /\ orig = [a |-> PermutedArray(nf, nc, dims), dim_size_np |-> dims]
          /\ arr = PermutedArray(nf, nc, dims)
    /\ passes = 0
    /\ ScannerAtRest

\* the loop of lines 244-272 run once more on its own result
ApplyRasterFlip ==
    /\ pc = "flip" /\ passes < 2
    /\ arr' = raster_flip(arr, orig.dim_size_np)
    /\ passes' = passes + 1
    /\ UNCHANGED <<file, input, exp, tamper, out, pc, orig>> /\ ScannerIdle

NextFlip == ApplyRasterFlip

SpecFlip == InitFlip /\ [][NextFlip]_vars

(* ------------------------------- claims -------------------------------- *)
IsExport == input.kind = "export_scan"
Untouched == tamper.kind = "none"
\* the call passed the argument checks of export_scan and named its channels
ValidCall ==
    /\ IsExport
    /\ export_validate(input.x) = ""
    /\ Len(input.x.header_in.channel_names) = exp_num_channels(input.x)
ExplicitChannelAxis ==
    Ndim(input.x.data) = (IF input.x.is_uniform THEN exp_num_dims(input.x) ELSE 1) + 2

\* what decode(encode(x)) == x asks of the result of import_scan
DecodedEqualsInput ==
    /\ exp.status = "ok"
    /\ out.res.status = "ok"
    /\ out.res.coords = input.x.axis_coordinates
    /\ out.res.f = input.x.f_vector
    /\ out.res.data = input.x.data
    /\ out.res.header.header = input.x.header_in.header
    /\ out.res.header.description = input.x.header_in.description
    /\ out.res.header.device_name = input.x.header_in.device_name
    /\ out.res.header.channel_names = input.x.header_in.channel_names
    /\ out.res.header.is_uniform = input.x.is_uniform

\* C1: every valid uniform or non-uniform input (with an explicit channel axis
\* and at least one axis), written by export_scan and read back by import_scan
\* asking for its own number of axes, comes back equal in every field.
C1_RoundTripIdentity ==
    (/\ pc = "imported" /\ ValidCall /\ Untouched /\ ExplicitChannelAxis
     /\ exp_num_dims(input.x) >= 1
     /\ out.requested = exp_num_dims(input.x))
    => DecodedEqualsInput

\* C2: a non-uniform input with n >= 1 coordinate vectors and a real sample
\* array of shape (num_points, num_freq, num_channels), exported and imported
\* with num_output_dimensions = n, comes back equal in every field, with
\* is_uniform = False and the same array shape.
C2_NonUniformRoundTrip ==
    (/\ pc = "imported" /\ ValidCall /\ Untouched
     /\ ~input.x.is_uniform /\ ~input.x.data.cplx
     /\ Ndim(input.x.data) = 3
     /\ exp_num_dims(input.x) >= 1
     /\ out.requested = exp_num_dims(input.x))
    => /\ DecodedEqualsInput
       /\ out.res.header.is_uniform = FALSE
       /\ out.res.data.shape = <<Len(input.x.axis_coordinates[1]), Len(input.x.f_vector),
                                 exp_num_channels(input.x)>>

C2_Witness ==
    /\ pc = "imported" /\ ValidCall /\ Untouched
    /\ ~input.x.is_uniform /\ ~input.x.data.cplx
    /\ input.x.data.shape = <<3, 2, 2>>
    /\ exp_num_dims(input.x) = 2
    /\ out.requested = 2
    /\ out.res.status = "ok"
    /\ out.res.data = input.x.data
    /\ Len(out.res.coords) = 2

\* the (Nf, Nc, spatial points) array whose packing export_scan writes
PackedArray ==
    LET a == IF IsExport THEN exp_data_to_process(input.x).a
             ELSE Transpose(input.x.data, <<1, 2, 0>>)
    IN  ReshapeF(a, <<a.shape[1], a.shape[2], Prod(Drop(a.shape, 2))>>)

\* C3: for a complex sample array, the complex unpacking of import_scan applied
\* to the [real_block, imag_block] payload the encoder wrote gives the packed
\* array again, element by element.
C3_ComplexPackingInvertible ==
    (/\ pc = "exported" /\ input.kind \in {"export_scan", "export_scan_SD"}
     /\ exp.status = "ok" /\ input.x.data.cplx)
    => /\ imp_read(file).status = "ok"
       /\ imp_read(file).data = PackedArray

\* C4 as claimed: two applications of the encoder's whole raster flip give
\* back the original array, for every spatial shape with 2 or more axes.
C4_FlipTwiceIsIdentity ==
    passes = 2 => arr = orig.a

\* the passes over axis 0 and axis 1 of a 3-axis shape commute
PassesCommute(d) == d[1] = 1 \/ d[3] = 1 \/ d[3] % 2 = 0 \/ d[2] % 2 = 1

\* C4 amended: two applications of the encoder's whole raster flip give back
\* the original array for every 2-axis shape; for a 3-axis shape (S0, S1, S2)
\* they do exactly when S0 = 1, S2 = 1, S2 is even or S1 is odd.
C4_FlipTwiceTwoAxes ==
    passes = 2 =>
        /\ Len(orig.dim_size_np) = 2 => arr = orig.a
        /\ Len(orig.dim_size_np) = 3 =>
               ((arr = orig.a) <=> PassesCommute(orig.dim_size_np))

C4_Witness ==
    /\ passes = 2
    /\ orig.dim_size_np = <<3, 2>>
    /\ arr = orig.a
    /\ raster_flip(orig.a, orig.dim_size_np) # orig.a

\* the number of axes the file stores, and the data block the encoder wrote
StoredDims == exp_num_dims_for_file(input.x)
PayloadLen == Len(final_data_payload(exp_data_to_process(input.x).a))
ExportedOk == IsExport /\ exp.status = "ok"

\* C5: a file whose real data block lacks its last k values is decoded without
\* error and with a zero-padding warning; the k missing trailing values count
\* as 0.0, so the last k values of the decoded array in wire order are zero and
\* the returned array holds exactly those k zeros.
C5_TruncatedPadding ==
    (/\ pc = "imported" /\ ExportedOk /\ ~input.x.data.cplx
     /\ tamper.kind = "truncate" /\ tamper.k <= PayloadLen
     /\ out.requested = StoredDims)
    => /\ out.res.status = "ok"
       /\ "padded with zeros" \in out.res.warnings
       /\ LET w == RavelF(imp_read(file).data)
          IN  /\ \A j \in (Len(w) - tamper.k + 1)..Len(w) : w[j] = <<0, 0>>
              /\ Len(out.res.data.flat) = Len(w)
              /\ Cardinality({j \in 1..Len(w) : out.res.data.flat[j] = <<0, 0>>})
                     = tamper.k

\* C6: a well-formed file followed by extra trailing bytes is decoded without
\* error to the same result as the file without them, with a warning.
C6_OverlongTolerance ==
    (/\ pc = "imported" /\ ExportedOk
     /\ tamper.kind = "append"
     /\ out.requested = StoredDims)
    => /\ out.res.status = "ok"
       /\ "extra data ignored" \in out.res.warnings
       /\ LET plain == import_scan(exp.file, out.requested)
          IN  /\ plain.status = "ok"
              /\ out.res.coords = plain.coords
              /\ out.res.f = plain.f
              /\ out.res.data = plain.data
              /\ out.res.header = plain.header

\* C7: reading a uniform file of n axes with num_output_dimensions = r < n is a
\* ValueError when a stored axis of index >= r has size > 1; otherwise decode
\* succeeds and returns exactly the first r coordinate vectors.
C7_FewerAxesRequested ==
    (/\ pc = "imported" /\ ExportedOk /\ Untouched /\ input.x.is_uniform
     /\ out.requested # NoneRequested /\ out.requested < StoredDims)
    => IF \E j \in (out.requested + 1)..StoredDims : Len(input.x.axis_coordinates[j]) > 1
       THEN /\ out.res.status = "error"
            /\ out.res.err = "ValueError: last significant dimension"
       ELSE /\ out.res.status = "ok"
            /\ out.res.coords = Take(input.x.axis_coordinates, out.requested)

\* the relative coordinate vectors the file stores
StoredCoords ==
    IF exp_num_dims(input.x) > 0 THEN input.x.axis_coordinates
    ELSE IF input.x.is_uniform THEN <<>> ELSE <<Zeros(input.x.data.shape[1])>>

\* C8: reading a file of n axes with num_output_dimensions = r > n succeeds
\* with a warning and returns the n stored vectors followed by r - n all-zero
\* vectors (length 1 when uniform, num_points when not).
C8_MoreAxesRequested ==
    (/\ pc = "imported" /\ ExportedOk /\ Untouched
     /\ out.requested > StoredDims)
    => /\ out.res.status = "ok"
       /\ "extra singleton dimensions" \in out.res.warnings
       /\ Len(out.res.coords) = out.requested
       /\ Take(out.res.coords, StoredDims) = StoredCoords
       /\ \A j \in (StoredDims + 1)..out.requested :
              out.res.coords[j] = Zeros(IF input.x.is_uniform THEN 1
                                        ELSE input.x.data.shape[1])

NothingReturned(r) ==
    /\ r.status = "error"
    /\ r.coords = <<>> /\ r.f = <<>> /\ r.data.flat = <<>>

\* C9: import_scan fails with "not recognized" whenever the first value is not
\* the magic code, and with "not supported" whenever the magic matches and the
\* second value is not 1; the magic is checked before the version is read (one
\* value consumed), no later field is consumed and nothing is returned.
C9_MagicVersionFailFast ==
    (pc = "imported" /\ file.exists) =>
        /\ (Len(file.vals) >= 1 /\ file.vals[1] # scan_file_code)
               => /\ NothingReturned(out.res)
                  /\ out.res.err = "ValueError: not recognized"
                  /\ out.res.pos = 1
        /\ (Len(file.vals) >= 2 /\ file.vals[1] = scan_file_code
                /\ file.vals[2] # scan_file_version)
               => /\ NothingReturned(out.res)
                  /\ out.res.err = "ValueError: not supported"
                  /\ out.res.pos = 2

C9_Witness ==
    /\ pc = "imported" /\ tamper.kind = "overwrite"
    /\ file.vals[1] # scan_file_code /\ file.vals[2] # scan_file_version
    /\ out.res.err = "ValueError: not recognized"
    /\ out.res.pos = 1

\* the arguments agree with the declared dimensions (spec sections 3 and 4.2)
ConsistentArgs(x) ==
    LET n == Len(x.axis_coordinates)
        sh == x.data.shape
    IN  /\ x.types_ok
        /\ IF x.is_uniform
           THEN /\ Ndim(x.data) \in {n + 1, n + 2}
                /\ \A i \in 1..n : Len(x.axis_coordinates[i]) = sh[i]
                /\ Len(x.f_vector) = sh[n + 1]
           ELSE /\ Ndim(x.data) \in {2, 3}
                /\ \A i \in 1..n : Len(x.axis_coordinates[i]) = sh[1]
                /\ Len(x.f_vector) = sh[2]

ConsistentArgsSD(y) ==
    /\ y.coords_is_list /\ y.header_ok /\ y.types_ok
    /\ Len(y.coords) = 2
    /\ y.data.shape = <<IF y.is_uniform THEN Prod(y.dim_size) ELSE y.dim_size[1],
                        Len(y.freqs), Len(y.channel_names)>>

Inconsistent ==
    \/ input.kind = "export_scan" /\ ~ConsistentArgs(input.x)
    \/ input.kind = "export_scan_SD" /\ ~ConsistentArgsSD(input.x)

Stored == imp_read(file)
AnyExport == input.kind \in {"export_scan", "export_scan_SD"}

\* C11: the sample array import_scan returns for an encoder's file, read with
\* the stored number of axes, has shape (axis_0, ..., axis_{n-1}, num_freq,
\* num_channels) when the file is uniform with n >= 1 axes, and shape
\* (num_points, num_freq, num_channels) when it is non-uniform.
C11_DecodedShape ==
    (/\ pc = "imported" /\ AnyExport /\ exp.status = "ok" /\ Untouched
     /\ out.res.status = "ok"
     /\ out.requested = Stored.num_dims
     /\ Stored.num_dims >= 1)
    => out.res.data.shape =
           (IF Stored.is_uniform THEN Stored.dim_size ELSE <<Stored.dim_size[1]>>)
           \o <<Stored.num_f, Stored.num_channels>>

\* the field groups the encoder wrote, in writing order, and the stream
\* position (in values) after the j-th of them
FieldsWritten ==
    IF IsExport
    THEN exp_header_fields(input.x)
         \o <<Field("data", final_data_payload(exp_data_to_process(input.x).a))>>
    ELSE sd_fields(input.x)
WriterPositions == [j \in 1..Len(FieldsWritten) |-> Len(Concat(Take(FieldsWritten, j)))]
CoordsEnd == WriterPositions[15]
DataStart == WriterPositions[16]

\* C12: when the stream of an encoder's file ends before the end of its
\* absolute coordinates (inside a header field or a coordinate vector),
\* import_scan fails and returns nothing; it pads with zeros only when the
\* stream ends inside the measurement data block.
C12_StructuralCorruptionFatal ==
    (pc = "imported" /\ AnyExport /\ exp.status = "ok" /\ tamper.kind = "cut")
    => /\ tamper.k < CoordsEnd => NothingReturned(out.res)
       /\ (out.res.status = "ok" /\ "padded with zeros" \in out.res.warnings)
              => tamper.k >= DataStart

\* the channel count of the sample array and the names the caller passed
DataChannels ==
    IF IsExport THEN exp_num_channels(input.x)
    ELSE input.x.data.shape[Ndim(input.x.data)]
NamesPassed ==
    IF IsExport THEN input.x.header_in.channel_names ELSE input.x.channel_names
\* the caller's names cut to the channel count or filled up with "Channel k"
NamesExpected ==
    [k \in 1..DataChannels |->
        IF k <= Len(NamesPassed) THEN NamesPassed[k] ELSE DefaultChannelName(k)]

\* C13: every file an encode call produces holds exactly num_channels channel
\* names (export_scan fills a short list with "Channel k" and cuts a long one,
\* exportScanSD.export_scan rejects a list of another length before opening the
\* file), and import_scan reads exactly that many: its position after the names
\* is the writer's and the next value it reads is num_freq.
C13_ChannelNameCount ==
    (pc = "exported" /\ AnyExport) =>
        /\ exp.status = "ok" =>
               /\ Stored.status = "ok"
               /\ Stored.num_channels = DataChannels
               /\ Stored.header.channel_names = NamesExpected
               /\ imp_positions(file)[11] = WriterPositions[11]
               /\ WriterPositions[11] - WriterPositions[10]
                      = Sum([k \in 1..DataChannels |-> 1 + Len(NamesExpected[k])])
               /\ Stored.num_f = FieldsWritten[12].vals[1]
        /\ (~IsExport /\ input.x.coords_is_list /\ Len(input.x.coords) = 2
                /\ Len(NamesPassed) # DataChannels)
               => (exp.status = "error" /\ ~exp.opened)

C13_Witness ==
    /\ pc = "exported" /\ IsExport /\ exp.status = "ok"
    /\ Len(NamesPassed) = 3 /\ DataChannels = 2
    /\ Stored.header.channel_names = Take(NamesPassed, 2)

\* the call failed after it had opened the output file
FailedAfterOpen == exp.status = "error" /\ exp.opened
\* everything the complete write sequence of the call would have put out
CompleteHeader ==
    IF IsExport THEN Concat(exp_header_fields(input.x)) ELSE Concat(sd_fields(input.x))

\* C14: when an encode call fails after opening the output file, the error
\* reaches the caller and the rest of the write sequence is not carried out;
\* exportScanSD.export_scan then removes the file (no file at the output path,
\* unless the removal fails, which adds only a warning and leaves the part
\* written so far), while exportScan.export_scan leaves the part written so far.
C14_PartialFilePolicy ==
    (pc = "exported" /\ AnyExport /\ FailedAfterOpen) =>
        IF IsExport
        THEN /\ exp.err = "ValueError: unexpected error"
             /\ file.exists
             /\ file.vals = Concat(exp_header_fields(input.x))
             /\ Stored.status = "ok" => "padded with zeros" \in Stored.warnings
        ELSE /\ exp.err = "IOError"
             /\ \/ file = NoFile /\ exp.warnings = {}
                \/ /\ exp.warnings = {"failed to remove incomplete file"}
                   /\ file.exists
                   /\ Len(file.vals) < Len(CompleteHeader)
                   /\ file.vals = Take(CompleteHeader, Len(file.vals))

C14_Witness ==
    /\ pc = "exported" /\ input.kind = "export_scan_SD" /\ FailedAfterOpen
    /\ ~IsAscii(input.x.channel_names[2])
    /\ file = NoFile

\* the strings the caller passed to the encoder
StringsPassed ==
    IF IsExport
    THEN <<input.x.header_in.header, input.x.header_in.description,
           input.x.header_in.device_name>> \o input.x.header_in.channel_names
    ELSE sd_strings(input.x)

\* C15: an encode call (either encoder) given a string with a character above
\* code point 255 fails, and no file it leaves holds that code point.
C15_WideCharFailFast ==
    (pc = "exported" /\ AnyExport
     /\ \E k \in 1..Len(StringsPassed) : \E j \in 1..Len(StringsPassed[k]) :
            StringsPassed[k][j] > 255)
    => /\ exp.status = "error"
       /\ \A i \in 1..Len(file.vals) : file.vals[i] \notin {c \in StringCodes : c > 255}

\* C16: for every file an encoder produces, import_scan reads the 17 field
\* groups in the order and with the lengths they were written: its stream
\* position after each group (magic, version, header, description, device
\* name, uniform flag, num_dims, dim_order, dim_size, channel count, channel
\* names, num_freq, complex flag, relative coordinates, absolute coordinates,
\* frequency vector, measurement data) is the writer's position after it.
C16_WriterReaderLockstep ==
    (pc = "exported" /\ AnyExport /\ exp.status = "ok")
    => /\ Stored.status = "ok"
       /\ imp_positions(file) = WriterPositions

\* some coordinate vector's length disagrees with the sample array: with
\* dimension i (uniform; dim_size[i] for the flattened array exportScanSD
\* takes) or with the number of points (non-uniform)
CoordLengthMismatch ==
    LET c == IF IsExport THEN input.x.axis_coordinates ELSE input.x.coords
        sh == input.x.data.shape
    IN  \E i \in 1..Len(c) :
            IF ~input.x.is_uniform THEN Len(sh) = 0 \/ Len(c[i]) # sh[1]
            ELSE IF IsExport THEN i > Len(sh) \/ Len(c[i]) # sh[i]
            ELSE Len(c[i]) # input.x.dim_size[i]

\* C17: an encode call (either encoder) whose coordinate vectors do not have
\* the lengths the sample array requires is rejected before the output file
\* is opened.
C17_CoordinateValidation ==
    (/\ pc = "exported" /\ AnyExport /\ input.x.types_ok
     /\ ~IsExport => (input.x.coords_is_list /\ Len(input.x.coords) = 2)
     /\ CoordLengthMismatch)
    => (exp.status = "error" /\ ~exp.opened)

\* the dim_order values of the file (import_scan adds 1 to each)
DimOrderInFile == [i \in 1..Stored.num_dims |-> Stored.dim_order[i] - 1]

\* C18: the dim_order field of every file an encode call produces is the
\* identity permutation 0, 1, ..., num_dims - 1.
C18_DimOrderIdentity ==
    (pc = "exported" /\ AnyExport /\ exp.status = "ok")
    => /\ Stored.status = "ok"
       /\ DimOrderInFile = Arange(Stored.num_dims)

\* the values of the file between the reader's positions after fields j-1 and j
BlockInFile(j) ==
    LET pos == imp_positions(file)
    IN  SubSeq(file.vals, pos[j - 1] + 1, pos[j])

\* C19: export_scan called with is_uniform = False, no coordinate vectors and
\* data of shape (num_points, num_freq) or (num_points, num_freq, num_channels)
\* succeeds with a warning and writes num_dims = 1, dim_order = [0],
\* dim_size = [num_points] and num_points zeros as relative and as absolute
\* coordinates; import_scan returns a non-uniform scan with one all-zero
\* coordinate vector of length num_points.
C19_ZeroAxisNonUniform ==
    (/\ pc = "imported" /\ IsExport /\ Untouched
     /\ input.x.types_ok /\ ~input.x.is_uniform /\ exp_num_dims(input.x) = 0
     /\ Ndim(input.x.data) \in {2, 3}
     /\ Len(input.x.f_vector) = input.x.data.shape[2]
     /\ out.requested \in {NoneRequested, 1})
    => LET num_points == input.x.data.shape[1]
       IN  /\ exp.status = "ok"
           /\ "zero axes" \in exp.warnings
           /\ Stored.num_dims = 1
           /\ DimOrderInFile = <<0>>
           /\ Stored.dim_size = <<num_points>>
           /\ BlockInFile(14) = Zeros(num_points)
           /\ BlockInFile(15) = Zeros(num_points)
           /\ out.res.status = "ok"
           /\ ~out.res.header.is_uniform
           /\ out.res.coords = <<Zeros(num_points)>>

\* the j-th field group as it stands in the file
WrittenBlock(j) ==
    SubSeq(file.vals, (IF j = 1 THEN 0 ELSE WriterPositions[j - 1]) + 1, WriterPositions[j])

\* C20: in every file an encode call (either encoder) produces, the block of
\* absolute coordinates repeats the block of relative coordinates written
\* just before it, value for value and in the same axis order.
C20_AbsoluteDuplicatesRelative ==
    (pc = "exported" /\ AnyExport /\ exp.status = "ok")
    => WrittenBlock(15) = WrittenBlock(14)

\* the call's sample array has no channel axis and the arguments are valid
ImplicitChannelCall ==
    /\ IsExport
    /\ export_validate(input.x) = ""
    /\ Ndim(input.x.data) = (IF input.x.is_uniform THEN exp_num_dims(input.x) ELSE 1) + 1
\* the same call with the values reshaped to carry a singleton channel axis
WithChannelAxis(x) == [x EXCEPT !.data.shape = @ \o <<1>>]

\* C21: export_scan accepts a sample array without channel axis (uniform shape
\* (S0, ..., S(n-1), Nf), non-uniform shape (NumPoints, Nf)), writes channel
\* count 1 and leaves exactly the file it writes for the same values with an
\* explicit singleton channel axis.
C21_ImplicitChannelAxis ==
    (pc = "exported" /\ ImplicitChannelCall)
    => /\ exp.status = "ok"
       /\ Stored.status = "ok" /\ Stored.num_channels = 1
       /\ export_scan(WithChannelAxis(input.x), NoFile).status = "ok"
       /\ file = export_scan(WithChannelAxis(input.x), NoFile).file

\* one pass of the flip rule over spatial axis i (0-based) of an array of shape
\* (Nf, Nc, S0, ..., S(n-1)), by index arithmetic: the position along axis i is
\* mirrored where the row-major index of the later axes is odd
FlipRulePass(a, dims, i) ==
    MkArray(a.shape, a.cplx,
        [k \in 1..Prod(a.shape) |->
            LET idx == CUnravel(a.shape, k - 1)
                after == Sum([j \in 1..(Len(dims) - i - 1) |->
                                idx[2 + i + 1 + j] * Prod(Drop(dims, i + 1 + j))])
            IN  IF after % 2 = 1
                THEN Elem(a, [idx EXCEPT ![2 + i + 1] = dims[i + 1] - 1 - @])
                ELSE Elem(a, idx)])
RECURSIVE FlipRuleFrom(_, _, _)
FlipRuleFrom(a, dims, i) ==
    IF i >= Len(dims) - 1 THEN a
    ELSE FlipRuleFrom(FlipRulePass(a, dims, i), dims, i + 1)

\* the (Nf, Nc, spatial...) array of the call before any flip
PermutedInput ==
    LET n == exp_num_dims(input.x)
    IN  IF input.x.is_uniform
        THEN Transpose(input.x.data, <<n, n + 1>> \o Arange(n))
        ELSE Transpose(input.x.data, <<1, 2, 0>>)

\* C22: the data block export_scan writes is that of the permuted array in
\* forward order for non-uniform data and for uniform data of at most one
\* axis; for uniform data of 2 or more axes it is that of the array after one
\* pass per spatial axis i from the first to the last but one, each on the
\* result of the pass before, mirroring axis i exactly where the index of the
\* later axes is odd; for 2 axes the value written for (f, c, s0, s1) is the
\* sample at (S0 - 1 - s0, s1) when s1 is odd and at (s0, s1) when s1 is even.
C22_RasterFlipRule ==
    (pc = "exported" /\ IsExport /\ exp.status = "ok")
    => LET dims == exp_dim_size_np(input.x)
           n == Len(dims)
           block == WrittenBlock(17)
           nf == Len(input.x.f_vector)
           nc == exp_num_channels(input.x)
       IN  /\ (~input.x.is_uniform \/ n <= 1)
                 => block = final_data_payload(PermutedInput)
           /\ (input.x.is_uniform /\ n > 1)
                 => block = final_data_payload(FlipRuleFrom(PermutedInput, dims, 0))
           /\ (input.x.is_uniform /\ n = 2)
                 => \A f \in 0..(nf - 1), c \in 0..(nc - 1),
                       s0 \in 0..(dims[1] - 1), s1 \in 0..(dims[2] - 1) :
                       block[FIndex(<<nf, nc, dims[1], dims[2]>>, <<f, c, s0, s1>>) + 1]
                         = Elem(input.x.data,
                                <<IF s1 % 2 = 1 THEN dims[1] - 1 - s0 ELSE s0,
                                  s1, f, c>>)[1]

C22_Witness ==
    /\ pc = "exported" /\ IsExport /\ exp.status = "ok"
    /\ input.x.is_uniform
    /\ exp_dim_size_np(input.x) = <<3, 2>>
    /\ WrittenBlock(17) # final_data_payload(PermutedInput)

\* idx[1] + shape[1] * (idx[2] + shape[2] * (idx[3] + ...)), indices 0-based
RECURSIVE ColumnMajorIndex(_, _)
ColumnMajorIndex(shape, idx) ==
    IF Len(shape) = 0 THEN 0
    ELSE Head(idx) + Head(shape) * ColumnMajorIndex(Tail(shape), Tail(idx))

\* C23: the data block export_scan writes holds the permuted (and flipped)
\* array of shape (Nf, Nc, S0, S1, ...) column-major: the value at
\* (f, c, s0, s1, ...) stands at index f + Nf*(c + Nc*(s0 + S0*(s1 + ...)));
\* a real array gives these N values, a complex one its N real parts in that
\* order followed by its N imaginary parts in that order.
C23_WireLayout ==
    (pc = "exported" /\ IsExport /\ exp.status = "ok")
    => LET a == exp_data_to_process(input.x).a
           N == Prod(a.shape)
           block == WrittenBlock(17)
       IN  /\ Len(block) = (IF a.cplx THEN 2 * N ELSE N)
           /\ a.shape = <<Len(input.x.f_vector), exp_num_channels(input.x)>>
                        \o (IF input.x.is_uniform THEN exp_dim_size_np(input.x)
                            ELSE <<input.x.data.shape[1]>>)
           /\ \A k \in 1..N :
                 LET idx == CUnravel(a.shape, k - 1)
                     at == ColumnMajorIndex(a.shape, idx) + 1
                 IN  /\ block[at] = Elem(a, idx)[1]
                     /\ a.cplx => block[N + at] = Elem(a, idx)[2]

C23_Witness ==
    /\ pc = "exported" /\ IsExport /\ exp.status = "ok"
    /\ input.x.data.cplx /\ input.x.is_uniform
    /\ input.x.data.shape = <<2, 3, 2, 2>>
    /\ Len(WrittenBlock(17)) = 48

\* the number of spatial points of the call's sample array
SpatialPoints ==
    IF input.x.is_uniform
    THEN Prod(Take(input.x.data.shape, exp_num_dims(input.x)))
    ELSE input.x.data.shape[1]

\* C24: in every file export_scan produces, prod(dim_size) (uniform) or
\* dim_size[0] (non-uniform) is the number of spatial points of the sample
\* array, and the data block holds exactly the num_freq * num_channels *
\* num_points * (2 if complex else 1) values import_scan works out from the
\* header, so reading the file raises neither the zero-padding nor the
\* extra-data notice.
C24_DeclaredSizesMatch ==
    (pc = "exported" /\ IsExport /\ exp.status = "ok")
    => LET num_points == IF Stored.is_uniform THEN Prod(Stored.dim_size)
                         ELSE Stored.dim_size[1]
       IN  /\ Stored.status = "ok"
           /\ Stored.is_uniform = input.x.is_uniform
           /\ num_points = SpatialPoints
           /\ Len(WrittenBlock(17))
                 = Stored.num_f * Stored.num_channels * num_points
                   * (IF Stored.is_complex THEN 2 ELSE 1)
           /\ WriterPositions[17] = Len(file.vals)
           /\ "padded with zeros" \notin Stored.warnings
           /\ "extra data ignored" \notin Stored.warnings

C24_Witness ==
    /\ pc = "exported" /\ IsExport /\ exp.status = "ok"
    /\ ~input.x.is_uniform /\ input.x.data.cplx
    /\ exp_num_dims(input.x) = 2
    /\ input.x.data.shape = <<3, 2, 2>>
    /\ Stored.dim_size = <<3, 1>>
    /\ Stored.warnings = {}

(* ------------------------------ claim C25 ------------------------------ *)
\* the file in hand is a non-uniform file storing n >= 2 per-point coordinate
\* vectors, with dim_size = [num_points, 1, ..., 1]
StoresPerPointVectors ==
    /\ Stored.status = "ok"
    /\ ~Stored.is_uniform
    /\ Stored.num_dims >= 2
    /\ \A j \in 2..Stored.num_dims : Stored.dim_size[j] = 1
    /\ \A j \in 1..Stored.num_dims :
          Len(Stored.axis_coordinates[j]) = Stored.dim_size[1]

\* C25: import_scan called without a requested output dimensionality on a
\* non-uniform file that stores n >= 2 per-point coordinate vectors returns
\* all n stored vectors, each of length num_points; none is dropped.
C25_NoCoordinateDropped ==
    (pc = "imported" /\ out.requested = NoneRequested /\ StoresPerPointVectors)
    => /\ out.res.status = "ok"
       /\ out.res.coords = Stored.axis_coordinates

(* ======================= motion control and scanning ==================== *)
(* Positions are whole numbers of length units.  A Python dict is the      *)
(* function on its keys, a tuple or list the sequence of its elements      *)
(* (element i is at i + 1).  A method returns [d, exc, ret] (driver) or    *)
(* [mc, d, exc, ret] (controller): the objects after the call, the         *)
(* exception raised ("none" when it returned) and the value returned.      *)
(* driver.calls lists the calls the driver received during the most        *)
(* recent controller operation.                                            *)

\* endstops the device reports are -MaxTravel and MaxTravel
MaxTravel == 1
\* positions and offsets a caller asks for are within -MaxRequest..MaxRequest
MaxRequest == 2

\* GcodeSimulator.axis_names
axis_names == <<"X", "Y", "Z", "W">>
Axes == 0..(Len(axis_names) - 1)

\* the codec is not running while the motion side is
CodecAtRest ==
    /\ file = NoFile /\ input = [kind |-> "none"] /\ exp = NoResult
    /\ tamper = NoTamper /\ out = [requested |-> NoneRequested, res |-> NoResult]
    /\ pc = "scanner" /\ arr = <<>> /\ orig = <<>> /\ passes = 0
CodecIdle == UNCHANGED <<file, input, exp, tamper, out, pc, arr, orig, passes>>

(* --------------------- GcodeSimulator (the driver) --------------------- *)
\* __init__; lo and hi are the device's answers to "E00-?" and "E00+?"
GcodeSimulator_init(lo, hi) ==
    [_connected |-> FALSE,
     _current_positions |-> [a \in Axes |-> 0],
     _target_positions |-> [a \in Axes |-> 0],
     _start_positions |-> [a \in Axes |-> 0],
     _is_moving |-> FALSE,
     device_minimums |-> lo, device_maximums |-> hi,
     calls |-> <<>>]

\* a fault names the driver method during which an exception exc is raised
NoFault == [at |-> "none", exc |-> "none"]

Called(d, name, arg) == [d EXCEPT !.calls = Append(@, <<name, arg>>)]
Returned(d, ret) == [d |-> d, exc |-> "none", ret |-> ret]
Raised(d, exc) == [d |-> d, exc |-> exc, ret |-> <<>>]

\* write_line, then check_for_error(read_line()): the reply does not arrive
\* (TimeoutError), is an error message (ValueError), or is ret
exchange(d, method, fault, ret) ==
    IF fault.at = method THEN Raised(d, fault.exc) ELSE Returned(d, ret)

GcodeSimulator_connect(d, fault) ==
    IF fault.at = "connect" THEN Raised(Called(d, "connect", <<>>), fault.exc)
    ELSE Returned([Called(d, "connect", <<>>) EXCEPT !._connected = TRUE], <<>>)

GcodeSimulator_disconnect(d) ==
    Returned([Called(d, "disconnect", <<>>) EXCEPT !._connected = FALSE], <<>>)

GcodeSimulator_get_current_positions(d) ==
    Returned(Called(d, "get_current_positions", <<>>),
             [k \in 1..Len(axis_names) |-> d._current_positions[k - 1]])

GcodeSimulator_get_target_positions(d) ==
    Returned(Called(d, "get_target_positions", <<>>),
             [k \in 1..Len(axis_names) |-> d._target_positions[k - 1]])

GcodeSimulator_get_endstop_minimums(d, fault) ==
    exchange(Called(d, "get_endstop_minimums", <<>>), "get_endstop_minimums", fault,
             d.device_minimums)

GcodeSimulator_get_endstop_maximums(d, fault) ==
    exchange(Called(d, "get_endstop_maximums", <<>>), "get_endstop_maximums", fault,
             d.device_maximums)

\* the motion state is set before the command is sent and answered
GcodeSimulator_move_absolute(d, move_pos, fault) ==
    exchange([Called(d, "move_absolute", move_pos) EXCEPT
                 !._start_positions = d._current_positions,
                 !._is_moving = TRUE,
                 !._target_positions =
                     [a \in Axes |-> IF a \in DOMAIN move_pos THEN move_pos[a]
                                     ELSE d._target_positions[a]]],
             "move_absolute", fault, move_pos)

GcodeSimulator_home(d, axes, fault) ==
    LET home_positions == [axis \in axes |-> 0]
        mv == GcodeSimulator_move_absolute(Called(d, "home", axes), home_positions, fault)
    IN  IF mv.exc # "none" THEN mv ELSE Returned(mv.d, home_positions)

\* the elapsed time is compared with the move's duration by update_motion
GcodeSimulator_is_moving(d) == Returned(Called(d, "is_moving", <<>>), d._is_moving)

GcodeSimulator_set_velocity(d, velocities, fault) ==
    exchange(Called(d, "set_velocity", velocities), "set_velocity", fault, <<>>)

GcodeSimulator_set_acceleration(d, accel, fault) ==
    exchange(Called(d, "set_acceleration", accel), "set_acceleration", fault, <<>>)

\* _update_motion as run by the simulation thread: half way (fraction 1/2,
\* rounded down) while the duration has not elapsed, at the target after it
GcodeSimulator_update_motion(d, elapsed) ==
    IF ~d._is_moving THEN d
    ELSE IF elapsed
    THEN [d EXCEPT !._is_moving = FALSE, !._current_positions = d._target_positions]
    ELSE [d EXCEPT !._current_positions =
             [i \in Axes |-> d._start_positions[i]
                             + (d._target_positions[i] - d._start_positions[i]) \div 2]]

(* --------------------------- MotionController --------------------------- *)
\* __init__ (which ends with disconnect() on a controller never connected)
MotionController_init ==
    [_is_driver_connected |-> FALSE, _axis_labels |-> <<>>, _target_positions |-> <<>>,
     _endstop_minimums |-> <<>>, _endstop_maximums |-> <<>>]

Out(m, r) == [mc |-> m, d |-> r.d, exc |-> r.exc, ret |-> r.ret]

MotionController_connect(m, d, fault) ==
    LET c == GcodeSimulator_connect(d, fault)
        cp == GcodeSimulator_get_current_positions(Called(c.d, "get_axis_display_names", <<>>))
        lo == GcodeSimulator_get_endstop_minimums(cp.d, fault)
        hi == GcodeSimulator_get_endstop_maximums(lo.d, fault)
        m1 == [m EXCEPT !._is_driver_connected = TRUE, !._axis_labels = axis_names,
                        !._target_positions = cp.ret]
        m2 == [m1 EXCEPT !._endstop_minimums = lo.ret]
        m3 == [m2 EXCEPT !._endstop_maximums = hi.ret]
    IN  IF c.exc # "none" THEN Out(m, c)
        ELSE IF lo.exc # "none" THEN Out(m1, lo)
        ELSE IF hi.exc # "none" THEN Out(m2, hi)
        ELSE Out(m3, Returned(hi.d, <<>>))

MotionController_disconnect(m, d) ==
    Out(MotionController_init,
        IF m._is_driver_connected THEN GcodeSimulator_disconnect(d) ELSE Returned(d, <<>>))

\* must_be_valid_index does not raise (min() of no index raises ValueError)
must_be_valid_index(m, inds) ==
    inds # {} /\ \A i \in inds : 0 <= i /\ i < Len(m._axis_labels)

\* move_absolute lines 274-277, clamping only the upper side
Clamped_upper_only(m, axis_positions) ==
    [ind \in DOMAIN axis_positions |->
        IF ind < Len(m._endstop_maximums)
        THEN Min(axis_positions[ind], m._endstop_maximums[ind + 1])
        ELSE axis_positions[ind]]

\* move_absolute lines 274-277
Clamped(m, axis_positions) ==
    [ind \in DOMAIN axis_positions |->
        IF ind < Len(m._endstop_maximums)
        THEN Max(Min(axis_positions[ind], m._endstop_maximums[ind + 1]),
                 m._endstop_minimums[ind + 1])
        ELSE axis_positions[ind]]

MotionController_move_absolute(m, d, axis_positions, fault) ==
    LET keys == DOMAIN axis_positions
        index_error == \E ind \in keys : /\ ind < Len(m._endstop_maximums)
                                         /\ ind >= Len(m._endstop_minimums)
        mv == GcodeSimulator_move_absolute(d, Clamped(m, axis_positions), fault)
        first == GcodeSimulator_is_moving(mv.d)
        second == GcodeSimulator_is_moving(first.d)
        cur == GcodeSimulator_get_current_positions(second.d)
        commanded == [k \in 1..Len(m._target_positions) |->
                         IF first.ret /\ (k - 1) \in DOMAIN mv.ret THEN mv.ret[k - 1]
                         ELSE m._target_positions[k]]
        settled == [k \in 1..Len(m._target_positions) |->
                       IF k <= Len(cur.ret) THEN cur.ret[k] ELSE commanded[k]]
    IN  IF ~m._is_driver_connected THEN Out(m, Raised(d, "ConnectionError"))
        ELSE IF ~must_be_valid_index(m, keys) THEN Out(m, Raised(d, "ValueError"))
        ELSE IF index_error THEN Out(m, Raised(d, "IndexError"))
        ELSE IF mv.exc # "none" THEN Out(m, mv)
        ELSE IF second.ret
        THEN Out([m EXCEPT !._target_positions = commanded], Returned(second.d, <<>>))
        ELSE Out([m EXCEPT !._target_positions = settled], Returned(cur.d, <<>>))

\* the absolute positions move_relative computes (lines 295-298)
abs_positions(d, axis_offsets) ==
    [axis \in DOMAIN axis_offsets |-> d._current_positions[axis] + axis_offsets[axis]]

MotionController_move_relative(m, d, axis_offsets, fault) ==
    IF ~m._is_driver_connected THEN Out(m, Raised(d, "ConnectionError"))
    ELSE IF ~must_be_valid_index(m, DOMAIN axis_offsets) THEN Out(m, Raised(d, "ValueError"))
    ELSE MotionController_move_absolute(m, GcodeSimulator_get_current_positions(d).d,
                                        abs_positions(d, axis_offsets), fault)

MotionController_home(m, d, axes, fault) ==
    IF ~m._is_driver_connected THEN Out(m, Raised(d, "ConnectionError"))
    ELSE IF ~must_be_valid_index(m, axes) THEN Out(m, Raised(d, "ValueError"))
    ELSE Out(m, GcodeSimulator_home(d, axes, fault))

MotionController_is_moving(m, d) ==
    IF ~m._is_driver_connected THEN Out(m, Raised(d, "ConnectionError"))
    ELSE Out(m, GcodeSimulator_is_moving(d))

MotionController_get_current_positions(m, d) ==
    IF ~m._is_driver_connected THEN Out(m, Raised(d, "ConnectionError"))
    ELSE Out(m, GcodeSimulator_get_current_positions(d))

MotionController_get_target_positions(m, d) ==
    IF ~m._is_driver_connected THEN Out(m, Raised(d, "ConnectionError"))
    ELSE Out(m, GcodeSimulator_get_target_positions(d))

MotionController_set_velocity(m, d, axis_velocities, fault) ==
    IF ~m._is_driver_connected THEN Out(m, Raised(d, "ConnectionError"))
    ELSE Out(m, GcodeSimulator_set_velocity(d, axis_velocities, fault))

MotionController_set_acceleration(m, d, axis_accels, fault) ==
    IF ~m._is_driver_connected THEN Out(m, Raised(d, "ConnectionError"))
    ELSE Out(m, GcodeSimulator_set_acceleration(d, axis_accels, fault))

(* ------------- a client calling the controller's operations ------------- *)
\* what the device can answer to an endstop query: a value for every axis,
\* or for the first axis only
EndstopReplies(v) == {[k \in 1..Len(axis_names) |-> v], <<v>>}

\* exceptions a driver's connect() and its endstop queries can raise
ConnectFaults ==
    {NoFault}
    \cup {[at |-> "connect", exc |-> e] : e \in {"ConnectionError", "RuntimeError", "ZMQError"}}
    \cup {[at |-> q, exc |-> e] : q \in {"get_endstop_minimums", "get_endstop_maximums"},
                                  e \in {"TimeoutError", "ValueError"}}

ReplyFaults(method) == {NoFault, [at |-> method, exc |-> "TimeoutError"]}

\* dicts a caller passes: the second axis, no axis, an axis out of range
Requests ==
    {[a \in {1} |-> v] : v \in (0 - MaxRequest)..MaxRequest}
    \cup {<<>>, [a \in {Len(axis_names)} |-> 0]}

Fresh(d) == [d EXCEPT !.calls = <<>>]

InitMotion ==
    /\ CodecAtRest
    /\ mc = MotionController_init
    /\ \E lo \in EndstopReplies(0 - MaxTravel), hi \in EndstopReplies(MaxTravel) :
          driver = GcodeSimulator_init(lo, hi)
    /\ probe = <<>>
    /\ caller = [op |-> "none", requested |-> <<>>, exc |-> "none", last_connect |-> "none"]

\* the controller operation op ran with result r; requested is the absolute
\* position it asked for, if it is a move
Operate(op, requested, r) ==
    /\ mc' = r.mc
    /\ driver' = r.d
    /\ caller' = [op |-> op, requested |-> requested, exc |-> r.exc,
                  last_connect |-> IF op # "connect" THEN caller.last_connect
                                   ELSE IF r.exc = "none" THEN "returned" ELSE "raised"]
    /\ UNCHANGED probe /\ CodecIdle

McConnect(fault) ==
    Operate("connect", <<>>, MotionController_connect(mc, Fresh(driver), fault))

McDisconnect ==
    Operate("disconnect", <<>>, MotionController_disconnect(mc, Fresh(driver)))

McMoveAbsolute(axis_positions, fault) ==
    Operate("move_absolute", axis_positions,
            MotionController_move_absolute(mc, Fresh(driver), axis_positions, fault))

McMoveRelative(axis_offsets, fault) ==
    /\ \A a \in DOMAIN axis_offsets \cap Axes :
          driver._current_positions[a] + axis_offsets[a] \in (0 - MaxRequest)..MaxRequest
    /\ Operate("move_relative",
               IF DOMAIN axis_offsets \subseteq Axes THEN abs_positions(driver, axis_offsets)
               ELSE <<>>,
               MotionController_move_relative(mc, Fresh(driver), axis_offsets, fault))

McHome(axes, fault) ==
    Operate("home", <<>>, MotionController_home(mc, Fresh(driver), axes, fault))

McQuery(op) ==
    Operate(op, <<>>,
            CASE op = "is_moving" -> MotionController_is_moving(mc, Fresh(driver))
              [] op = "get_current_positions" ->
                     MotionController_get_current_positions(mc, Fresh(driver))
              [] op = "get_target_positions" ->
                     MotionController_get_target_positions(mc, Fresh(driver)))

McSet(op, fault) ==
    Operate(op, <<>>,
            CASE op = "set_velocity" ->
                     MotionController_set_velocity(mc, Fresh(driver), [a \in {0} |-> 1], fault)
              [] op = "set_acceleration" ->
                     MotionController_set_acceleration(mc, Fresh(driver), [a \in {0} |-> 1],
                                                       fault))

\* the driver's simulation thread runs _update_motion while a move is under way
UpdateMotion(elapsed) ==
    /\ driver._is_moving
    /\ driver' = GcodeSimulator_update_motion(driver, elapsed)
    /\ UNCHANGED <<mc, probe, caller>> /\ CodecIdle

NextMotion ==
    \/ \E fault \in ConnectFaults : McConnect(fault)
    \/ McDisconnect
    \/ \E p \in Requests, fault \in ReplyFaults("move_absolute") : McMoveAbsolute(p, fault)
    \/ \E o \in Requests, fault \in ReplyFaults("move_absolute") : McMoveRelative(o, fault)
    \/ \E axes \in {{0}, {0, 1}, {}}, fault \in ReplyFaults("move_absolute") : McHome(axes, fault)
    \/ \E op \in {"is_moving", "get_current_positions", "get_target_positions"} : McQuery(op)
    \/ \E op \in {"set_velocity", "set_acceleration"} :
          \E fault \in ReplyFaults(op) : McSet(op, fault)
    \/ \E elapsed \in BOOLEAN : UpdateMotion(elapsed)

SpecMotion == InitMotion /\ [][NextMotion]_vars

(* ------------------------------ claim C26 ------------------------------ *)
\* the controller is connected and holds an endstop minimum and maximum,
\* min <= max, that the driver reported for every axis
EndstopsReported ==
    /\ mc._is_driver_connected
    /\ mc._endstop_minimums = driver.device_minimums
    /\ mc._endstop_maximums = driver.device_maximums
    /\ Len(mc._endstop_minimums) = Len(axis_names)
    /\ Len(mc._endstop_maximums) = Len(axis_names)
    /\ \A k \in 1..Len(axis_names) : mc._endstop_minimums[k] <= mc._endstop_maximums[k]

\* the position within [lo, hi] nearest to p
Nearest(p, lo, hi) == IF p < lo THEN lo ELSE IF p > hi THEN hi ELSE p

\* C26: on a connected controller whose driver reported endstops for every
\* axis, every position that move_absolute or move_relative passes to the
\* driver's move_absolute lies within the axis' endstops and is the
\* requested position or, if that is outside, the nearest bound.
C26_EndstopClamping ==
    (caller.op \in {"move_absolute", "move_relative"} /\ EndstopsReported)
    => \A k \in 1..Len(driver.calls) :
          driver.calls[k][1] = "move_absolute"
          => LET passed == driver.calls[k][2]
             IN  /\ DOMAIN passed = DOMAIN caller.requested
                 /\ \A a \in DOMAIN passed :
                       /\ mc._endstop_minimums[a + 1] <= passed[a]
                       /\ passed[a] <= mc._endstop_maximums[a + 1]
                       /\ passed[a] = Nearest(caller.requested[a],
                                              mc._endstop_minimums[a + 1],
                                              mc._endstop_maximums[a + 1])

C26_Witness ==
    /\ caller.op = "move_relative" /\ caller.exc = "none" /\ EndstopsReported
    /\ DOMAIN caller.requested = {1}
    /\ caller.requested[1] > MaxTravel
    /\ driver._current_positions[1] > 0
    /\ \E k \in 1..Len(driver.calls) :
          /\ driver.calls[k][1] = "move_absolute"
          /\ driver.calls[k][2][1] = MaxTravel

(* ------------------------------ claim C27 ------------------------------ *)
GuardedOps ==
    {"move_absolute", "move_relative", "home", "is_moving", "get_current_positions",
     "get_target_positions", "set_velocity", "set_acceleration"}

\* C27: is_connected() is True only if the most recent connect() returned
\* normally; after a connect() that raised, is_connected() is False and every
\* guarded operation raises ConnectionError without calling the driver.
C27_FailedConnectLeavesDisconnected ==
    /\ mc._is_driver_connected => caller.last_connect = "returned"
    /\ caller.last_connect = "raised"
       => /\ ~mc._is_driver_connected
          /\ caller.op \in GuardedOps
             => caller.exc = "ConnectionError" /\ driver.calls = <<>>

(* ------------------- ConnectThread (test_scanner_gui.py) ---------------- *)
\* the largest max_retries a ConnectThread is created with
MaxRetries == 3

\* the handler of ConnectionError, TimeoutError and RuntimeError (lines
\* 84-87), reporting after every failed attempt
ConnectThread_retry_reports_each(t, e) ==
    [t EXCEPT !.attempt = @ + 1, !.pc = "msleep",
              !.signals = Append(@, <<"connect_error", "Failed after attempts", e>>)]

\* the handler of ConnectionError, TimeoutError and RuntimeError (lines 84-87)
ConnectThread_retry(t, e) ==
    [t EXCEPT !.attempt = @ + 1, !.pc = "msleep",
              !.signals = IF t.attempt + 1 = t.max_retries
                          THEN Append(@, <<"connect_error", "Failed after attempts", e>>)
                          ELSE @]

\* a thread created for a controller never connected; run() is at the loop
\* test of line 75
InitConnect ==
    /\ CodecAtRest
    /\ mc = MotionController_init
    /\ \E lo \in EndstopReplies(0 - MaxTravel), hi \in EndstopReplies(MaxTravel) :
          driver = GcodeSimulator_init(lo, hi)
    /\ probe = <<>>
    /\ \E max_retries \in 0..MaxRetries :
          caller = [pc |-> IF 0 < max_retries THEN "try" ELSE "done", attempt |-> 0,
                    max_retries |-> max_retries, signals |-> <<>>, connects |-> 0]

\* lines 76-91: one pass through the loop body, up to msleep or return
ConnectAttempt(fault) ==
    /\ caller.pc = "try"
    /\ LET r == MotionController_connect(mc, Fresh(driver), fault)
           t == [caller EXCEPT !.connects = @ + 1]
           e == IF r.exc = "none" /\ ~r.mc._is_driver_connected THEN "RuntimeError"
                ELSE r.exc
       IN  /\ mc' = r.mc
           /\ driver' = r.d
           /\ caller' =
                 IF e = "none"
                 THEN [t EXCEPT !.pc = "done",
                                !.signals = Append(@, <<"connect_finished", "True", e>>)]
                 ELSE IF e \in {"ConnectionError", "TimeoutError", "RuntimeError"}
                 THEN ConnectThread_retry(t, e)
                 ELSE [t EXCEPT !.pc = "done",
                                !.signals = Append(@, <<"connect_error", "str(e)", e>>)]
    /\ UNCHANGED probe /\ CodecIdle

\* msleep(1000) of line 88 returns and the loop test of line 75 is made
ConnectSleep ==
    /\ caller.pc = "msleep"
    /\ caller' = [caller EXCEPT !.pc = IF caller.attempt < caller.max_retries
                                       THEN "try" ELSE "done"]
    /\ UNCHANGED <<mc, driver, probe>> /\ CodecIdle

NextConnect ==
    \/ \E fault \in ConnectFaults : ConnectAttempt(fault)
    \/ ConnectSleep

\* a started thread keeps running: connect() returns or raises within the
\* reply timeout and msleep returns
SpecConnectFair == InitConnect /\ [][NextConnect]_vars /\ WF_vars(NextConnect)

(* ------------------------------ claim C28 ------------------------------ *)
\* what C28 says of every state of a run with max_retries >= 1
BoundedRetryState ==
    caller.max_retries >= 1
    => /\ caller.connects <= caller.max_retries
       /\ Len(caller.signals) <= 1
       /\ caller.pc = "done" => Len(caller.signals) = 1
       /\ caller.pc = "try" => caller.signals = <<>>
       /\ \A k \in 1..Len(caller.signals) :
             LET s == caller.signals[k]
             IN  /\ s[1] = "connect_finished"
                    => /\ caller.pc = "done" /\ mc._is_driver_connected
                       /\ caller.connects = caller.attempt + 1
                 /\ (s[1] = "connect_error" /\ s[2] = "Failed after attempts")
                    => /\ s[3] \in {"ConnectionError", "TimeoutError", "RuntimeError"}
                       /\ caller.attempt = caller.max_retries
                       /\ caller.connects = caller.max_retries
                 /\ (s[1] = "connect_error" /\ s[2] = "str(e)")
                    => /\ s[3] \notin {"ConnectionError", "TimeoutError", "RuntimeError"}
                       /\ caller.pc = "done"
                       /\ caller.connects = caller.attempt + 1

\* C28: for max_retries >= 1 a run calls connect() at most max_retries times
\* and emits exactly one signal: connect_finished(True) after the first
\* attempt that succeeds, or connect_error once, after the max_retries-th
\* retryable exception or at once after an exception of another type; and
\* the run terminates.
C28_BoundedConnectRetry ==
    /\ []BoundedRetryState
    /\ <>[](caller.pc = "done" /\ (caller.max_retries >= 1 => Len(caller.signals) = 1))

C28_Witness ==
    /\ caller.pc = "done" /\ caller.max_retries = MaxRetries
    /\ caller.connects = MaxRetries
    /\ caller.signals = <<<<"connect_error", "Failed after attempts", "TimeoutError">>>>

(* --------------------------- Scanner.run_scan --------------------------- *)
\* x_dim and y_dim are 0, 2, ..., 2 * MaxHalfSpan; steps are 1..MaxStep
MaxHalfSpan == 1
MaxStep == 2

\* a zigzag sweep as <<inner value, outer value>> pairs: the inner values in
\* order on even outer indices, reversed on odd ones
zigzag(inner, outer) ==
    [k \in 1..(Len(inner) * Len(outer)) |->
        LET i == (k - 1) \div Len(inner)
            c == (k - 1) % Len(inner)
        IN  <<inner[IF i % 2 = 0 THEN c + 1 ELSE Len(inner) - c], outer[i + 1]>>]

\* lines 28-65 with no start or end given: the centred ranges
\* arange(start, end + step, step) cut at end, and the zigzag list of (x, y)
scan_xy(scan_order, x_dim, y_dim, x_step, y_step) ==
    LET x_start == 0 - x_dim \div 2
        y_start == 0 - y_dim \div 2
        x_range == [k \in 1..(x_dim \div x_step + 1) |-> x_start + (k - 1) * x_step]
        y_range == [k \in 1..(y_dim \div y_step + 1) |-> y_start + (k - 1) * y_step]
        yx == zigzag(y_range, x_range)
    IN  IF scan_order = "XY" THEN zigzag(x_range, y_range)
        ELSE [k \in 1..Len(yx) |-> <<yx[k][2], yx[k][1]>>]

\* line 93 with the wait left out
run_scan_never_waits(moving) == FALSE

\* line 93: the condition of the loop that sleeps while the axes move
run_scan_keeps_waiting(moving) == moving

\* a Scanner whose motion controller was connected, or was not, before run_scan
InitScan ==
    /\ CodecAtRest
    /\ \E lo \in EndstopReplies(0 - MaxTravel), hi \in EndstopReplies(MaxTravel),
          connected \in BOOLEAN :
          LET r == MotionController_connect(MotionController_init,
                                            GcodeSimulator_init(lo, hi), NoFault)
          IN  /\ mc = IF connected THEN r.mc ELSE MotionController_init
              /\ driver = IF connected THEN r.d ELSE GcodeSimulator_init(lo, hi)
    /\ probe = <<>>
    /\ \E scan_order \in {"XY", "YX"}, hx \in 0..MaxHalfSpan, hy \in 0..MaxHalfSpan,
          x_step \in 1..MaxStep, y_step \in 1..MaxStep :
          caller = [pc |-> "move", i |-> 0, exc |-> "none",
                    scan_xy |-> scan_xy(scan_order, 2 * hx, 2 * hy, x_step, y_step)]

\* lines 69-91: the move to point i, then scan_begin or the read of point i - 1
RunScanMove(fault) ==
    /\ caller.pc = "move"
    /\ LET r == MotionController_move_absolute(
                    mc, Fresh(driver), [a \in {0, 1} |-> caller.scan_xy[caller.i + 1][a + 1]],
                    fault)
       IN  /\ mc' = r.mc
           /\ driver' = r.d
           /\ IF r.exc # "none"
              THEN /\ caller' = [caller EXCEPT !.pc = "raised", !.exc = r.exc]
                   /\ UNCHANGED probe
              ELSE /\ caller' = [caller EXCEPT !.pc = "wait"]
                   /\ probe' = Append(probe, IF caller.i = 0 THEN <<"scan_begin", 0>>
                                             ELSE <<"scan_read_measurement", caller.i - 1>>)
    /\ CodecIdle

\* lines 93-99: the wait loop is left and point i is triggered
RunScanWait ==
    /\ caller.pc = "wait"
    /\ LET r == MotionController_is_moving(mc, Fresh(driver))
       IN  /\ r.exc = "none"
           /\ ~run_scan_keeps_waiting(r.ret)
           /\ driver' = r.d
    /\ probe' = Append(probe, <<"scan_trigger_and_wait", caller.i>>)
    /\ caller' = [caller EXCEPT !.i = @ + 1,
                                !.pc = IF caller.i + 1 < Len(caller.scan_xy) THEN "move"
                                       ELSE "return"]
    /\ UNCHANGED mc /\ CodecIdle

\* lines 101-111: the move back to (0, 0), the last read and scan_end
RunScanReturn(fault) ==
    /\ caller.pc = "return"
    /\ LET r == MotionController_move_absolute(mc, Fresh(driver), [a \in {0, 1} |-> 0], fault)
       IN  /\ mc' = r.mc
           /\ driver' = r.d
           /\ IF r.exc # "none"
              THEN /\ caller' = [caller EXCEPT !.pc = "raised", !.exc = r.exc]
                   /\ UNCHANGED probe
              ELSE /\ caller' = [caller EXCEPT !.pc = "done"]
                   /\ probe' = probe \o <<<<"scan_read_measurement", Len(caller.scan_xy) - 1>>,
                                          <<"scan_end", 0>>>>
    /\ CodecIdle

NextScan ==
    \/ \E fault \in ReplyFaults("move_absolute") : RunScanMove(fault)
    \/ RunScanWait
    \/ \E fault \in ReplyFaults("move_absolute") : RunScanReturn(fault)
    \/ \E elapsed \in BOOLEAN : UpdateMotion(elapsed)

SpecScan == InitScan /\ [][NextScan]_vars

(* ------------------------------ claim C29 ------------------------------ *)
\* the probe calls of a complete scan of n points, in the order C29 gives:
\* scan_begin, trigger 0, read 0, trigger 1, ..., read n - 1, scan_end
ProbeProtocol(n) ==
    [k \in 1..(2 * n + 2) |->
        IF k = 1 THEN <<"scan_begin", 0>>
        ELSE IF k = 2 * n + 2 THEN <<"scan_end", 0>>
        ELSE IF k % 2 = 0 THEN <<"scan_trigger_and_wait", (k - 2) \div 2>>
        ELSE <<"scan_read_measurement", (k - 3) \div 2>>]

\* C29: in a run_scan of n >= 1 points that raises no exception, the probe
\* calls are scan_begin once, then for i = 0..n-1 in increasing order
\* trigger i followed by read i (read i before trigger i + 1), then scan_end
\* once; and point i is triggered only while the controller reports
\* is_moving() false after the move to point i was commanded.
C29_ProbeProtocolOrder ==
    caller.pc # "raised"
    => LET n == Len(caller.scan_xy)
           last == probe[Len(probe)]
       IN  /\ Len(probe) <= 2 * n + 2
           /\ probe = SubSeq(ProbeProtocol(n), 1, Len(probe))
           /\ caller.pc = "done" => probe = ProbeProtocol(n)
           /\ (caller.pc \in {"move", "return"} /\ Len(probe) > 0)
              => /\ last = <<"scan_trigger_and_wait", caller.i - 1>>
                 /\ ~driver._is_moving
                 /\ \A a \in {0, 1} :
                       driver._target_positions[a] =
                           Clamped(mc, [b \in {0, 1} |-> caller.scan_xy[caller.i][b + 1]])[a]

C29_Witness ==
    /\ caller.pc = "done" /\ Len(caller.scan_xy) = 6
    /\ probe = ProbeProtocol(6)
    /\ caller.scan_xy[3] = <<1, 0 - 1>> /\ caller.scan_xy[4] = <<1, 1>>

(* -------------------- ScanThread (test_scanner_gui.py) ------------------ *)
\* lines 133-157: the (axis 0, axis 1) targets of the sweep, in order.  The
\* positions are arange(start, start + dim + step / 2, step); for "YX" the
\* two lists change names before the loops
ScanThread_points(t) ==
    LET x_start == IF t.start_position = "Center" THEN 0 - t.x_dim \div 2 ELSE 0
        y_start == IF t.start_position = "Center" THEN 0 - t.y_dim \div 2 ELSE 0
        x_list == [k \in 1..((2 * t.x_dim + 3 * t.x_step - 1) \div (2 * t.x_step)) |->
                      x_start + (k - 1) * t.x_step]
        y_list == [k \in 1..((2 * t.y_dim + 3 * t.y_step - 1) \div (2 * t.y_step)) |->
                      y_start + (k - 1) * t.y_step]
        x_positions == IF t.scan_order = "YX" THEN y_list ELSE x_list
        y_positions == IF t.scan_order = "YX" THEN x_list ELSE y_list
    IN  zigzag(x_positions, y_positions)

\* a thread just started; moves are the targets commanded in the sweep,
\* commands counts every move_absolute call, at_stop is that count when
\* stop() was first called
InitSweep ==
    /\ CodecAtRest
    /\ \E connected \in BOOLEAN :
          LET lo == [k \in 1..Len(axis_names) |-> 0 - MaxTravel]
              hi == [k \in 1..Len(axis_names) |-> MaxTravel]
              r == MotionController_connect(MotionController_init,
                                            GcodeSimulator_init(lo, hi), NoFault)
          IN  /\ mc = IF connected THEN r.mc ELSE MotionController_init
              /\ driver = IF connected THEN r.d ELSE GcodeSimulator_init(lo, hi)
    /\ \E connected \in BOOLEAN : probe = [connected |-> connected, calls |-> <<>>]
    /\ \E scan_order \in {"XY", "YX"}, start_position \in {"Center", "Corner"},
          hx \in 0..MaxHalfSpan, hy \in 0..MaxHalfSpan,
          x_step \in 1..MaxStep, y_step \in 1..MaxStep :
          caller = [pc |-> "start", _pause |-> FALSE, _stop |-> FALSE,
                    scan_order |-> scan_order, start_position |-> start_position,
                    x_dim |-> 2 * hx, y_dim |-> 2 * hy, x_step |-> x_step, y_step |-> y_step,
                    k |-> 0, moves |-> <<>>, signals |-> <<>>, commands |-> 0, at_stop |-> 0 - 1]

\* lines 121-128: the connection checks and the move to (0, 0)
SweepBegin(fault) ==
    /\ caller.pc = "start"
    /\ LET r == MotionController_move_absolute(mc, Fresh(driver), [a \in {0, 1} |-> 0], fault)
       IN  IF ~mc._is_driver_connected \/ ~probe.connected
           THEN /\ caller' = [caller EXCEPT !.pc = "failed",
                                 !.signals = Append(@, <<"scan_error", "ConnectionError">>)]
                /\ UNCHANGED <<mc, driver>>
           ELSE /\ mc' = r.mc
                /\ driver' = r.d
                /\ caller' = IF r.exc # "none"
                             THEN [caller EXCEPT !.pc = "failed", !.commands = @ + 1,
                                      !.signals = Append(@, <<"scan_error", r.exc>>)]
                             ELSE [caller EXCEPT !.pc = "homing", !.commands = @ + 1]
    /\ UNCHANGED probe /\ CodecIdle

\* lines 129-141: the axes have stopped; the move to the start position
SweepToStart(fault) ==
    /\ caller.pc = "homing"
    /\ ~MotionController_is_moving(mc, driver).ret
    /\ LET x_start == IF caller.start_position = "Center" THEN 0 - caller.x_dim \div 2 ELSE 0
           y_start == IF caller.start_position = "Center" THEN 0 - caller.y_dim \div 2 ELSE 0
           r == MotionController_move_absolute(
                    mc, Fresh(driver), [a \in {0, 1} |-> IF a = 0 THEN x_start ELSE y_start],
                    fault)
       IN  /\ mc' = r.mc
           /\ driver' = r.d
           /\ caller' = IF r.exc # "none"
                        THEN [caller EXCEPT !.pc = "failed", !.commands = @ + 1,
                                 !.signals = Append(@, <<"scan_error", r.exc>>)]
                        ELSE [caller EXCEPT !.pc = "to_start", !.commands = @ + 1]
    /\ UNCHANGED probe /\ CodecIdle

\* lines 142-157: the axes have stopped; the position lists are built and
\* the loops entered
SweepPlan ==
    /\ caller.pc = "to_start"
    /\ ~MotionController_is_moving(mc, driver).ret
    /\ caller' = [caller EXCEPT !.pc = "check", !.k = 1]
    /\ UNCHANGED <<mc, driver, probe>> /\ CodecIdle

\* lines 158-161: the pause loop is left, then _stop is looked at
SweepCheck ==
    /\ caller.pc = "check"
    /\ ~(caller._pause /\ ~caller._stop)
    /\ caller' = [caller EXCEPT !.pc = IF caller._stop THEN "stopped" ELSE "move"]
    /\ UNCHANGED <<mc, driver, probe>> /\ CodecIdle

\* lines 163-164: the target is announced and commanded
SweepMove(fault) ==
    /\ caller.pc = "move"
    /\ LET p == ScanThread_points(caller)[caller.k]
           r == MotionController_move_absolute(mc, Fresh(driver), [a \in {0, 1} |-> p[a + 1]],
                                               fault)
       IN  /\ mc' = r.mc
           /\ driver' = r.d
           /\ caller' = IF r.exc # "none"
                        THEN [caller EXCEPT !.pc = "failed", !.commands = @ + 1,
                                 !.moves = Append(@, p),
                                 !.signals = Append(@, <<"scan_error", r.exc>>)]
                        ELSE [caller EXCEPT !.pc = "moving", !.commands = @ + 1,
                                 !.moves = Append(@, p)]
    /\ UNCHANGED probe /\ CodecIdle

\* lines 166-172: the axes have stopped; the measurement is read, and
\* scan_finished is emitted after the last point
SweepRead ==
    /\ caller.pc = "moving"
    /\ ~MotionController_is_moving(mc, driver).ret
    /\ probe' = [probe EXCEPT !.calls = Append(@, <<"scan_read_measurement", 0>>)]
    /\ caller' = IF caller.k < Len(ScanThread_points(caller))
                 THEN [caller EXCEPT !.pc = "check", !.k = @ + 1]
                 ELSE [caller EXCEPT !.pc = "finished",
                          !.signals = Append(@, <<"scan_finished", "">>)]
    /\ UNCHANGED <<mc, driver>> /\ CodecIdle

\* pause(), resume() or stop() called from the GUI thread while run() is active
GuiCall(method) ==
    /\ caller.pc \notin {"finished", "stopped", "failed"}
    /\ caller' = CASE method = "pause" -> [caller EXCEPT !._pause = TRUE]
                   [] method = "resume" -> [caller EXCEPT !._pause = FALSE]
                   [] method = "stop" ->
                          [caller EXCEPT !._stop = TRUE,
                              !.at_stop = IF caller._stop THEN @ ELSE caller.commands]
    /\ UNCHANGED <<mc, driver, probe>> /\ CodecIdle

NextSweep ==
    \/ \E fault \in ReplyFaults("move_absolute") : SweepBegin(fault)
    \/ \E fault \in ReplyFaults("move_absolute") : SweepToStart(fault)
    \/ SweepPlan
    \/ SweepCheck
    \/ \E fault \in ReplyFaults("move_absolute") : SweepMove(fault)
    \/ SweepRead
    \/ \E method \in {"pause", "resume", "stop"} : GuiCall(method)
    \/ \E elapsed \in BOOLEAN : UpdateMotion(elapsed)

SpecSweep == InitSweep /\ [][NextSweep]_vars

(* ------------------------------ claim C30 ------------------------------ *)
\* the configured rectangle and the grid points inside it, swept in the
\* boustrophedon order of the scan order: rows of x for "XY", columns of y
\* for "YX"
SweepStart(dim) == IF caller.start_position = "Center" THEN 0 - dim \div 2 ELSE 0
InsideRectangle(p) ==
    /\ SweepStart(caller.x_dim) <= p[1] /\ p[1] <= SweepStart(caller.x_dim) + caller.x_dim
    /\ SweepStart(caller.y_dim) <= p[2] /\ p[2] <= SweepStart(caller.y_dim) + caller.y_dim
GridSweep ==
    LET gx == [i \in 1..(caller.x_dim \div caller.x_step + 1) |->
                  SweepStart(caller.x_dim) + (i - 1) * caller.x_step]
        gy == [j \in 1..(caller.y_dim \div caller.y_step + 1) |->
                  SweepStart(caller.y_dim) + (j - 1) * caller.y_step]
        yx == zigzag(gy, gx)
    IN  IF caller.scan_order = "XY" THEN zigzag(gx, gy)
        ELSE [k \in 1..Len(yx) |-> <<yx[k][2], yx[k][1]>>]

\* C30: with stop() never called, whatever pause() and resume() calls come
\* in between, the targets commanded in the sweep visit every grid point
\* inside the configured rectangle exactly once in boustrophedon order and
\* scan_finished is then emitted exactly once; once stop() has been called
\* no further move is commanded.
C30_SweepCoverage ==
    /\ (caller.pc = "finished" /\ ~caller._stop)
       => /\ SelectSeq(caller.moves, InsideRectangle) = GridSweep
          /\ caller.signals = <<<<"scan_finished", "">>>>
    /\ Cardinality({k \in 1..Len(caller.signals) : caller.signals[k][1] = "scan_finished"}) <= 1
    /\ caller._stop => caller.commands = caller.at_stop

====
